---- MODULE Spec2Model ----
(***************************************************************************)
(* A model of the local durable workflow engine of codehz/workflow:        *)
(*   - InMemoryWorkflowStorage   (instances, step checkpoints, pending     *)
(*                                events)                                  *)
(*   - WorkflowExecutor          (create / resume / restart / recover /    *)
(*                                sendEvent / shutdown)                    *)
(*   - LocalWorkflowInstance     (the handle: pause / terminate / ...)     *)
(*   - LocalWorkflowStep         (do / sleep / sleepUntil / waitForEvent)  *)
(*                                                                         *)
(* Every `await` of the code is a point where other code may run, so every *)
(* action below is the synchronous stretch of code between two awaits.     *)
(* The in-memory storage applies an operation when it is called.           *)
(*                                                                         *)
(* Time is kept relative to the present instant: a stored deadline d       *)
(* stands for the wall-clock value Date.now() + d, and Tick lets one unit  *)
(* of time pass (every deadline moves one unit closer, down to 0 = due).   *)
(***************************************************************************)
EXTENDS Integers, Sequences, FiniteSets, TLC

\* ---------------------------------------------------------------- bounds
MaxRunners == 3      \* runs (startInstance calls) in one behaviour
MaxOps == 4          \* calls made on the managers and handles in one behaviour
SleepMs == 2         \* duration of the workflows' sleep step, in time units
DelayMs == 1         \* retries.delay of the retry workflow, in time units
TimeoutMs == 2       \* timeout of the workflows' waitForEvent, in time units
UntilMs == 2         \* distance of the sleepUntil target from the start

Mgrs == {1, 2}                       \* LocalWorkflow managers sharing one storage
InstanceIds == {"a", "b"}            \* ids of instances
ParamValues == {5}                   \* params.value passed to create()
Payloads == {7, 8}                   \* event payloads passed to sendEvent()
EventType == "test-event"

None == <<>>
Some(v) == <<v>>
IsSome(o) == o # <<>>
Val(o) == o[1]

Dec(d) == IF d > 0 THEN d - 1 ELSE 0

\* ------------------------------------------------------------- workflows
\* The user's run(): a sequence of step calls.  The value run() returns is
\* the value of its last step call.
Workflows == {"Pausable", "SingleEvent", "Retry", "Until",
              "RetryWorkflow", "NonRetryWorkflow", "ExponentialBackoffWorkflow",
              "ErrorHandlingWorkflow", "SimpleWorkflow",
              "InvalidDurationWorkflow", "PastTimestampWorkflow",
              "ZeroDurationWorkflow", "NegativeDurationWorkflow",
              "ZeroSecondsWorkflow", "SignedDurationWorkflow", "VoidWorkflow",
              "NestedWaitWorkflow", "StringDelayWorkflow"}

\* A step call of run(): its operation, its name and its config. `limit`,
\* `delay` and `backoff` are config.retries of a do(); a do() without them
\* was called without config. `catch` marks a step call inside try/catch.
\* NonRetryWorkflow is run with a retry limit, so that a retry would be
\* possible; ErrorHandlingWorkflow stands for StandardizedErrorWorkflow too.
Prog(w) ==
  CASE w = "Pausable" ->
         << [op |-> "do", name |-> "step1", limit |-> 0],
            [op |-> "sleep", name |-> "sleep1", ms |-> SleepMs],
            [op |-> "do", name |-> "step2", limit |-> 0] >>
    [] w = "SingleEvent" ->
         << [op |-> "waitForEvent", name |-> "wait-event",
             type |-> EventType, timeout |-> TimeoutMs] >>
    [] w = "Retry" ->
         << [op |-> "do", name |-> "retry-step", limit |-> 1, delay |-> DelayMs] >>
    [] w = "Until" ->
         << [op |-> "sleepUntil", name |-> "until1"],
            [op |-> "do", name |-> "step2", limit |-> 0] >>
    [] w = "RetryWorkflow" ->
         << [op |-> "do", name |-> "retry-step", limit |-> 2, delay |-> DelayMs] >>
    [] w = "NonRetryWorkflow" ->
         << [op |-> "do", name |-> "non-retry-step", limit |-> 2, delay |-> DelayMs] >>
    [] w = "ExponentialBackoffWorkflow" ->
         << [op |-> "do", name |-> "exponential-retry-step", limit |-> 2,
             delay |-> DelayMs, backoff |-> "exponential"] >>
    [] w = "ErrorHandlingWorkflow" ->
         << [op |-> "do", name |-> "error-step", catch |-> TRUE] >>
    [] w = "SimpleWorkflow" ->
         << [op |-> "do", name |-> "simple"] >>
    [] w = "InvalidDurationWorkflow" ->
         << [op |-> "sleep", name |-> "sleep-str", duration |-> "100 milliseconds"] >>
    [] w = "PastTimestampWorkflow" ->
         << [op |-> "sleepUntil", name |-> "sleep-past", target |-> 0 - 1000] >>
    [] w = "ZeroDurationWorkflow" ->
         << [op |-> "sleep", name |-> "sleep-zero", ms |-> 0] >>
    [] w = "NegativeDurationWorkflow" ->
         << [op |-> "sleep", name |-> "sleep-negative", ms |-> 0 - 1] >>
    [] w = "ZeroSecondsWorkflow" ->
         << [op |-> "sleep", name |-> "sleep-str", duration |-> "0 seconds"] >>
    [] w = "SignedDurationWorkflow" ->
         << [op |-> "sleep", name |-> "sleep-str", duration |-> "-2 seconds"] >>
    [] w = "VoidWorkflow" ->
         << [op |-> "do", name |-> "void-step"] >>
    [] w = "StringDelayWorkflow" ->
         << [op |-> "do", name |-> "retry-step", limit |-> 1, delayText |-> "2 seconds"] >>
    [] w = "NestedWaitWorkflow" ->
         << [op |-> "do", name |-> "outer-step", limit |-> 1, delay |-> DelayMs,
             body |-> [op |-> "waitForEvent", name |-> "inner-wait",
                       type |-> EventType, timeout |-> TimeoutMs]] >>

\* The value a step body computes: step1 doubles the parameter, step2 adds
\* 10 to the value of the first step call (0 if that was a sleep).
FirstVal(env) == IF Len(env) > 0 /\ IsSome(env[1]) THEN Val(env[1]) ELSE 0
BodyValue(name, payload, env) ==
  CASE name \in {"step1", "simple"} -> payload * 2
    [] name = "step2" -> FirstVal(env) + 10
    [] OTHER -> payload

\* What the body of a step returns when it returns: its value, or nothing
\* (undefined) for the body of void-step, which has no return statement.
BodyResult(name, payload, env) ==
  IF name = "void-step" THEN None ELSE Some(BodyValue(name, payload, env))

\* What the body of a step may throw: an Error, a NonRetryableError (a
\* subclass of Error), or a value that is no Error at all.
Error(message) == [kind |-> "Error", message |-> message]
NonRetryableError(message) == [kind |-> "NonRetryableError", message |-> message]
ThrownString(value) == [kind |-> "string", value |-> value]
ThrownNumber(value) == [kind |-> "number", value |-> value]

BodyThrows(name) ==
  CASE name \in {"retry-step", "exponential-retry-step"} -> {Error("Temporary failure")}
    [] name = "non-retry-step" -> {NonRetryableError("Non-retryable error")}
    [] name = "error-step" -> {Error("Test error"), ThrownString("string error"), ThrownNumber(42)}
    [] OTHER -> {}

\* Whether the body of a step may throw, and whether it may return.
BodyMayFail(name) == BodyThrows(name) # {}
BodyMayReturn(name) == name \notin {"non-retry-step", "error-step"}

\* getErrorMessage: the message of an Error, String(error) of anything else
Digit(d) == SubSeq("0123456789", d + 1, d + 1)
RECURSIVE NumberToString(_)
NumberToString(n) == IF n < 10 THEN Digit(n) ELSE NumberToString(n \div 10) \o Digit(n % 10)
NoMessage(error) == ""
ObjectString(error) == "[object Object]"
String(error) == IF error.kind = "number" THEN NumberToString(error.value) ELSE error.value
getErrorMessage(error) ==
  IF error.kind \in {"Error", "NonRetryableError"} THEN error.message ELSE String(error)

\* parseDuration: duration.match(/(\d+)\s*(second|minute|hour|day)s?/), a
\* search without anchors: the match may start at any position and need
\* not reach the end of the string.
DigitChars == {Digit(d) : d \in 0..9}
Whitespace == {" ", "\t"}
Units == << "second", "minute", "hour", "day" >>
CharAt(str, i) == SubSeq(str, i, i)

\* the end of the longest run of characters of `chars` that starts at i.
\* \d+ and \s* are greedy, and giving a character back never helps: the
\* character after a shorter run is a digit or a blank, and a unit starts
\* with neither.
RECURSIVE RunEnd(_, _, _)
RunEnd(str, i, chars) ==
  IF i <= Len(str) /\ CharAt(str, i) \in chars THEN RunEnd(str, i + 1, chars) ELSE i

\* the first alternative of (second|minute|hour|day) found at position k
UnitAt(str, k) ==
  LET found == { n \in 1..Len(Units) :
                   /\ k + Len(Units[n]) - 1 <= Len(str)
                   /\ SubSeq(str, k, k + Len(Units[n]) - 1) = Units[n] } IN
  IF found = {} THEN None
  ELSE Some(Units[CHOOSE n \in found : \A o \in found : n <= o])

\* the groups of a match that starts at position i
MatchAt(str, i) ==
  LET j == RunEnd(str, i, DigitChars)
      k == RunEnd(str, j, Whitespace) IN
  IF j > i /\ IsSome(UnitAt(str, k))
  THEN Some([number |-> SubSeq(str, i, j - 1), unit |-> Val(UnitAt(str, k))])
  ELSE None

\* String.prototype.match: the leftmost match
Match(str) ==
  LET starts == { i \in 1..Len(str) : IsSome(MatchAt(str, i)) } IN
  IF starts = {} THEN None
  ELSE MatchAt(str, CHOOSE i \in starts : \A o \in starts : i <= o)

\* parseInt of a string of decimal digits
RECURSIVE ParseInt(_)
ParseInt(str) ==
  IF Len(str) = 0 THEN 0
  ELSE ParseInt(SubSeq(str, 1, Len(str) - 1)) * 10
         + (CHOOSE d \in 0..9 : Digit(d) = CharAt(str, Len(str)))

UnitMs(unit) ==
  CASE unit = "second" -> 1000
    [] unit = "minute" -> 60 * 1000
    [] unit = "hour" -> 60 * 60 * 1000
    [] unit = "day" -> 24 * 60 * 60 * 1000

\* what a call returns, or the message of the Error it throws
Returns(value) == [value |-> value]
Throws(message) == [message |-> message]

parseDuration(duration) ==
  LET match == Match(duration) IN
  IF match = None
  THEN Throws("Invalid duration format: " \o duration)
  ELSE Returns(ParseInt(Val(match).number) * UnitMs(Val(match).unit))

\* sleep(): ms = typeof duration === "string" ? parseDuration(duration) : duration
SleepDuration(st) ==
  IF "duration" \in DOMAIN st THEN parseDuration(st.duration) ELSE Returns(st.ms)

\* sleepUntil(): target.getTime() - now.getTime(); the target of a step
\* call that names none is the one of workflow "Until"
TargetDelay(st, until) == IF "target" \in DOMAIN st THEN st.target ELSE until

\* do(): maxRetries = config?.retries?.limit || 0
MaxRetries(st) == IF "limit" \in DOMAIN st THEN st.limit ELSE 0

\* do(): the pause before the next attempt: config.retries.delay if it is
\* a number, 1000 ms otherwise (`delay` is a delay given as a number,
\* `delayText` one given as a string)
DefaultDelay == 1000
RetryDelay(st) == IF "delay" \in DOMAIN st THEN st.delay ELSE DefaultDelay

KeepsRetrying(error, attempts, st) == FALSE
OnlyByCount(error, attempts, st) == attempts > MaxRetries(st)

\* do(): error instanceof NonRetryableError || attempts > maxRetries
Exhausted(error, attempts, st) ==
  error.kind = "NonRetryableError" \/ attempts > MaxRetries(st)

\* ------------------------------------------------------------- variables
VARIABLES
  wf,             \* the workflow class the managers were constructed with
  storage,        \* InMemoryWorkflowStorage.storage: id -> InstanceInfo
  storageKeys,    \* insertion order of the keys of `storage` (a JS Map)
  stepStorage,    \* InMemoryWorkflowStorage.stepStorage: "id:step" -> StepState
  pendingEvents,  \* InMemoryWorkflowStorage.pendingEvents: "id:type" -> payload
  mgrStorage,     \* WorkflowExecutor._storage of each manager: "real" | "disabled"
  running,        \* WorkflowExecutor.running of each manager: id -> runner (0: none)
  eventListeners, \* WorkflowExecutor.eventListeners of each manager: set of <<id, type>>
  runners,        \* the runs started so far (startInstance), each with its step object
  call,           \* the create / resume / restart call in flight (None when idle)
  rec,            \* the recover() call in flight (None when idle)
  untilTarget,    \* the sleepUntil target of workflow "Until", relative to now
  bodyRuns,       \* how often the body of each step was invoked: "id:step" -> count
  calls,          \* per manager: the calls issued on it; was shutdown() called,
                  \* and which calls issued after it are suspended for ever /
                  \* got past their storage call; and of its last recover(): the
                  \* records it listed from, the ids it started, has it returned;
                  \* and the get() calls that were answered: id, handle or error;
                  \* and the createBatch() calls that have settled: the ids
                  \* asked for, the entries that failed, the handles returned;
                  \* and the last call made on the storage itself: operation,
                  \* instance id, name or type, and what it returned
  ops,            \* number of calls made on the managers and handles so far
  sends,          \* the sendEvent calls so far: payload, and whether a
                  \* waitForEvent of that type was waiting on the instance
  queue,          \* the promise continuations that are ready to run, in order
  gen             \* how often clearAllStepStates has wiped an instance's checkpoints

vars == << wf, storage, storageKeys, stepStorage, pendingEvents, mgrStorage,
           running, eventListeners, runners, call, rec, untilTarget, bodyRuns, calls,
           ops, sends, queue, gen >>

\* --------------------------------------------------- in-memory storage
Key(id, name) == id \o ":" \o name
StartsWith(k, p) == Len(k) >= Len(p) /\ SubSeq(k, 1, Len(p)) = p

MapSet(m, k, v) == [x \in DOMAIN m \cup {k} |-> IF x = k THEN v ELSE m[x]]
MapDel(m, ks) == [x \in DOMAIN m \ ks |-> m[x]]
KeysAdd(ks, k) == IF \E n \in 1..Len(ks) : ks[n] = k THEN ks ELSE Append(ks, k)

SaveNothing(id, state) == UNCHANGED << storage, storageKeys >>

\* saveInstance: this.storage.set(instanceId, {...state})
SaveInstance(id, state) ==
  /\ storage' = MapSet(storage, id, state)
  /\ storageKeys' = KeysAdd(storageKeys, id)

\* loadInstance: null for a missing record and for a record without event
LoadInstance(id) ==
  IF id \in DOMAIN storage /\ IsSome(storage[id].event) THEN Some(storage[id]) ELSE None

KeepInfo(info, updates) == info

\* updateInstance: {...existing, ...updates}; the caller checks existence
Merge(info, updates) ==
  [f \in DOMAIN info |-> IF f \in DOMAIN updates THEN updates[f] ELSE info[f]]
UpdateInstance(id, updates) ==
  /\ storage' = [storage EXCEPT ![id] = Merge(storage[id], updates)]
  /\ UNCHANGED storageKeys

\* loadStepState: this.stepStorage.get(key) || null
LoadStepState(id, name) ==
  IF Key(id, name) \in DOMAIN stepStorage THEN Some(stepStorage[Key(id, name)]) ELSE None

\* updateStepState: throws when the instance is missing, else sets the key
UpdateStepState(id, name, st) == stepStorage' = MapSet(stepStorage, Key(id, name), st)

\* clearAllStepStates: deletes every key that starts with "id:"
ClearedKeys(id) == {k \in DOMAIN stepStorage : StartsWith(k, id \o ":")}
ClearAllStepStates(id) == stepStorage' = MapDel(stepStorage, ClearedKeys(id))

\* listActiveInstances: ids, in insertion order, whose status is neither
\* terminated nor complete
\* (variant: only running instances are listed)
RunningFilter(id) == storage[id].status = "running"
ActiveFilter(id) == storage[id].status # "terminated" /\ storage[id].status # "complete"
ListActiveInstances == SelectSeq(storageKeys, ActiveFilter)

\* savePendingEvent: first wins
SavePendingEvent(id, type, payload) ==
  pendingEvents' = IF Key(id, type) \in DOMAIN pendingEvents
                   THEN pendingEvents
                   ELSE MapSet(pendingEvents, Key(id, type), payload)


\* loadPendingEvent: returns and removes the entry; null when the stored
\* payload is undefined (None) or the key is missing
LoadPendingEvent(id, type) ==
  IF Key(id, type) \in DOMAIN pendingEvents /\ IsSome(pendingEvents[Key(id, type)])
  THEN Some(pendingEvents[Key(id, type)]) ELSE None

\* DisabledWorkflowStorage: every operation returns DISABLED_PROMISE, a
\* promise that never settles; the caller stays suspended on it for ever.
DISABLED_PROMISE == "stalled"
\* (variant: shutdown() leaves the manager's storage in place)
StorageKept(m) == FALSE
Disabled(m) == mgrStorage[m] = "disabled"

\* ------------------------------------------------------------- the runs
\* One record per startInstance call: the run of the user's run() together
\* with the LocalWorkflowStep object made for it.
\*   pc       where the run is suspended (the code that runs next)
\*   ip       index in Prog(wf) of the step call being made
\*   sd       LocalWorkflowStep.shutdownRequested
\*   lst      LocalWorkflowStep.eventListeners (event types with a listener)
\*   ex       existingStepState of the step call
\*   att      attempts / initialRetries of do()
\*   result   value the step call settles with
\*   err      message of the error the step call settles with
\*   endTime  endTime / retryEndTime computed by the step call (relative)
\*   wake     time left on the step call's setTimeout
\*   env      the values run() got from its step calls so far
\*   gen      the value of gen when the run was started
\*   outer    attempts of the do() whose body is making the step call
\*            (None when the step call is made by run() itself)
NewRunner(m, id, payload, pc0) ==
  [mgr |-> m, id |-> id, payload |-> payload, pc |-> pc0, ip |-> 1, sd |-> FALSE,
   lst |-> {}, ex |-> None, att |-> 0, result |-> None, err |-> "",
   endTime |-> 0, wake |-> 0, env |-> <<>>, gen |-> gen, outer |-> None]

Runners == 1..Len(runners)
\* the step call under way: the one run() made, or the one its body made
CurStep(r) ==
  IF IsSome(runners[r].outer) THEN Prog(wf)[runners[r].ip].body ELSE Prog(wf)[runners[r].ip]

ForgetError(me, pc1, result, err) ==
  [me EXCEPT !.pc = pc1, !.ex = None, !.att = 0, !.result = result, !.err = "",
             !.endTime = 0, !.wake = 0]

\* the locals of a step call are dead once the call has settled
Settled(me, pc1, result, err) ==
  [me EXCEPT !.pc = pc1, !.ex = None, !.att = 0, !.result = result, !.err = err,
             !.endTime = 0, !.wake = 0]
Stalled(me) ==
  [NewRunner(me.mgr, me.id, me.payload, DISABLED_PROMISE) EXCEPT !.sd = me.sd, !.gen = me.gen]
Suspends(me, next) == Stalled(me)

\* checkShutdown: `await this.checkShutdown()` suspends the step call for
\* ever when shutdown() was called on the step object
CheckShutdown(me, next) == IF me.sd THEN Stalled(me) ELSE next

\* a checkpoint as run `me` writes it
Written(me, st) == st @@ [gen |-> me.gen]

FromZero(ex) == 0
Retries(ex) == IF IsSome(ex) /\ "retries" \in DOMAIN Val(ex) THEN Val(ex).retries ELSE 0

RunnerFrame == UNCHANGED << wf, gen, ops, sends, storage, storageKeys, pendingEvents, mgrStorage,
                            running, eventListeners, call, rec, untilTarget, calls >>

\* Promise continuations run in the order in which they were queued, and
\* timer callbacks run, and Date.now() is read again, only when none is
\* queued. A run that waits for a timer, for its step body or for nothing
\* any more has no continuation queued.
Waiting(me) ==
  me.pc \in {"do_body", "do_rwait", "do_delay", "sl_timer", "we_race", "done", DISABLED_PROMISE}
Quiet == queue = <<>>
CallId == 0
RecId == 0 - 1
Requeue(r) == IF Waiting(runners'[r]) THEN <<>> ELSE <<r>>
Spawned == IF Len(runners') > Len(runners) THEN Requeue(Len(runners')) ELSE <<>>

\* the queue holds exactly the runs and calls that have a continuation
QueueOK ==
  /\ \A i, j \in 1..Len(queue) : i # j => queue[i] # queue[j]
  /\ \A r \in Runners : ~Waiting(runners[r]) <=> \E i \in 1..Len(queue) : queue[i] = r
  /\ call # None <=> \E i \in 1..Len(queue) : queue[i] = CallId
  /\ (IF rec = None THEN FALSE ELSE Val(rec).pc # "wait")
       <=> \E i \in 1..Len(queue) : queue[i] = RecId

\* the continuation of run r is the next one, and queues its successor
Micro(r) ==
  /\ queue # <<>>
  /\ Head(queue) = r
  /\ queue' = Tail(queue) \o Requeue(r)

\* a timer callback, or the step body, settles the promise run r awaits
Macro(r) == queue' = queue \o Requeue(r)

\* the same for the continuations of createInstance / resumeInstance /
\* restartInstance and of recoverAll
MicroCall ==
  /\ queue # <<>>
  /\ Head(queue) = CallId
  /\ queue' = Tail(queue) \o (IF call' = None THEN <<>> ELSE <<CallId>>)

MicroRec ==
  /\ queue # <<>>
  /\ Head(queue) = RecId
  /\ queue' = Tail(queue) \o (IF rec' = None THEN <<>>
                               ELSE IF Val(rec').pc = "wait" THEN <<>> ELSE <<RecId>>)

MicroSpawn(who) ==
  /\ queue # <<>>
  /\ Head(queue) = who
  /\ queue' = Tail(queue) \o Spawned
                \o (IF who = CallId \/ rec' = None THEN <<>>
                    ELSE IF Val(rec').pc = "wait" THEN <<>> ELSE <<RecId>>)

\* run() makes its next step call: the synchronous start of do / sleep /
\* sleepUntil / waitForEvent up to its first await (loadStepState)
Enter(r) ==
  LET me == runners[r] IN
  /\ me.pc = "enter"
  /\ me.ip <= Len(Prog(wf))
  /\ LET st == CurStep(r)
         loaded == [me EXCEPT !.ex = LoadStepState(me.id, st.name)] IN
     runners' = [runners EXCEPT ![r] =
       CASE st.op = "do" -> [loaded EXCEPT !.pc = "do_loaded"]
         [] st.op = "sleep" ->
              IF "message" \in DOMAIN SleepDuration(st)
              THEN Settled(me, "thr", None, SleepDuration(st).message)
              ELSE IF SleepDuration(st).value <= 0
              THEN Settled(me, "thr", None, "Invalid duration")
              ELSE [loaded EXCEPT !.pc = "sl_loaded"]
         [] st.op = "sleepUntil" ->
              IF TargetDelay(st, untilTarget) <= 0
              THEN Settled(me, "thr", None, "Timestamp is in the past or invalid")
              ELSE [loaded EXCEPT !.pc = "sl_loaded"]
         [] st.op = "waitForEvent" -> [loaded EXCEPT !.pc = "we_loaded"] ]
  /\ UNCHANGED << stepStorage, bodyRuns >>
  /\ RunnerFrame
  /\ Micro(r)

\* the step call has settled with a value: run() continues after its await
StepReturn(r) ==
  LET me == runners[r] IN
  /\ me.pc = "ret"
  /\ me.outer = None
  /\ runners' = [runners EXCEPT ![r] =
       [Settled(me, "enter", None, "") EXCEPT !.ip = me.ip + 1,
                                              !.env = Append(me.env, me.result)]]
  /\ UNCHANGED << stepStorage, bodyRuns >>
  /\ RunnerFrame
  /\ Micro(r)

\* do(): after loadStepState
DoLoaded(r) ==
  LET me == runners[r]
      ex == me.ex IN
  /\ me.pc = "do_loaded"
  /\ runners' = [runners EXCEPT ![r] =
       IF IsSome(ex) /\ Val(ex).status = "completed"
       THEN CheckShutdown(me, Settled(me, "ret", Val(ex).result, ""))
       ELSE IF IsSome(ex) /\ Val(ex).status = "failed"
       THEN CheckShutdown(me, Settled(me, "thr", None, Val(ex).error))
       ELSE IF IsSome(ex) /\ Val(ex).status = "retrying" /\ 0 < Val(ex).retryEndTime
       THEN CheckShutdown(me, [me EXCEPT !.pc = "do_rwait", !.wake = Val(ex).retryEndTime])
       ELSE CheckShutdown(me, [me EXCEPT !.pc = "do_w_running", !.att = Retries(ex)])]
  /\ UNCHANGED << stepStorage, bodyRuns >>
  /\ RunnerFrame
  /\ Micro(r)

\* do(): the remaining backoff of a replayed `retrying` step has passed
DoRetryWaited(r) ==
  LET me == runners[r] IN
  /\ me.pc = "do_rwait"
  /\ me.wake = 0
  /\ Quiet
  /\ runners' = [runners EXCEPT ![r] =
       CheckShutdown(me, [me EXCEPT !.pc = "do_w_running", !.att = Retries(me.ex)])]
  /\ UNCHANGED << stepStorage, bodyRuns >>
  /\ RunnerFrame
  /\ Macro(r)

\* do(): updateStepState(running) before the first attempt, and after a
\* backoff pause (then the loop invokes the body without another check)
DoWriteRunning(r) ==
  LET me == runners[r] IN
  /\ me.pc \in {"do_w_running", "do_w_running2"}
  /\ UpdateStepState(me.id, CurStep(r).name, Written(me, [status |-> "running", retries |-> me.att]))
  /\ runners' = [runners EXCEPT ![r].pc =
       IF me.pc = "do_w_running" THEN "do_check" ELSE "do_invoke"]
  /\ UNCHANGED bodyRuns
  /\ RunnerFrame
  /\ Micro(r)

\* do(): `await this.checkShutdown()` before the retry loop
DoCheck(r) ==
  LET me == runners[r] IN
  /\ me.pc = "do_check"
  /\ runners' = [runners EXCEPT ![r] = CheckShutdown(me, [me EXCEPT !.pc = "do_invoke"])]
  /\ UNCHANGED << stepStorage, bodyRuns >>
  /\ RunnerFrame
  /\ Micro(r)

\* do(): `while (attempts <= maxRetries)` invokes the body; a loop that is
\* not entered leaves result undefined
DoInvoke(r) ==
  LET me == runners[r]
      k == Key(me.id, CurStep(r).name) IN
  /\ me.pc = "do_invoke"
  /\ IF me.att <= MaxRetries(CurStep(r))
     THEN /\ runners' = [runners EXCEPT ![r] =
               IF "body" \in DOMAIN CurStep(r)
               THEN [me EXCEPT !.pc = "we_loaded", !.outer = Some(me.att), !.att = 0,
                               !.ex = LoadStepState(me.id, CurStep(r).body.name)]
               ELSE [me EXCEPT !.pc = "do_body"]]
          /\ bodyRuns' = MapSet(bodyRuns, k, IF k \in DOMAIN bodyRuns THEN bodyRuns[k] + 1 ELSE 1)
     ELSE /\ runners' = [runners EXCEPT ![r] =
                           Settled(me, "thr", None, "Step failed after retries")]
          /\ UNCHANGED bodyRuns
  /\ UNCHANGED stepStorage
  /\ RunnerFrame
  /\ Micro(r)

\* do(): the body returned: `if (result === undefined) throw`, else on to
\* the checkpoint
DoBodyReturns(r) ==
  LET me == runners[r]
      result == BodyResult(CurStep(r).name, me.payload, me.env) IN
  /\ me.pc = "do_body"
  /\ BodyMayReturn(CurStep(r).name)
  /\ runners' = [runners EXCEPT ![r] =
       IF result = None
       THEN Settled(me, "thr", None, "Step failed after retries")
       ELSE CheckShutdown(me, [me EXCEPT !.pc = "do_w_completed", !.result = result])]
  /\ UNCHANGED << stepStorage, bodyRuns >>
  /\ RunnerFrame
  /\ Macro(r)

\* do(): the body threw: attempts++, then either the step fails for good
\* or retryEndTime = Date.now() + delay is computed for the pause
DoBodyThrows(r) ==
  LET me == runners[r]
      attempts == me.att + 1 IN
  /\ me.pc = "do_body"
  /\ \E error \in BodyThrows(CurStep(r).name) :
       runners' = [runners EXCEPT ![r] =
         IF Exhausted(error, attempts, CurStep(r))
         THEN CheckShutdown(me, [me EXCEPT !.pc = "do_w_failed", !.att = attempts,
                                           !.err = getErrorMessage(error)])
         ELSE CheckShutdown(me, [me EXCEPT !.pc = "do_w_retrying", !.att = attempts,
                                           !.endTime = RetryDelay(CurStep(r))])]
  /\ UNCHANGED << stepStorage, bodyRuns >>
  /\ RunnerFrame
  /\ Macro(r)

\* do(): the step call that the body made has settled, and with it the
\* body: `result = await cb()` returns its value or throws its error
BodySettles(r) ==
  LET me == runners[r]
      st == Prog(wf)[me.ip]
      back == [me EXCEPT !.outer = None, !.att = Val(me.outer)]
      attempts == Val(me.outer) + 1 IN
  /\ IsSome(me.outer)
  /\ me.pc \in {"ret", "thr"}
  /\ runners' = [runners EXCEPT ![r] =
       IF me.pc = "ret"
       THEN IF me.result = None
            THEN Settled(back, "thr", None, "Step failed after retries")
            ELSE CheckShutdown(back, [back EXCEPT !.pc = "do_w_completed"])
       ELSE IF Exhausted(Error(me.err), attempts, st)
       THEN CheckShutdown(back, [back EXCEPT !.pc = "do_w_failed", !.att = attempts,
                                             !.err = getErrorMessage(Error(me.err))])
       ELSE CheckShutdown(back, [back EXCEPT !.pc = "do_w_retrying", !.att = attempts,
                                             !.endTime = RetryDelay(st)])]
  /\ UNCHANGED << stepStorage, bodyRuns >>
  /\ RunnerFrame
  /\ Micro(r)

\* do(): updateStepState(completed)
DoWriteCompleted(r) ==
  LET me == runners[r] IN
  /\ me.pc = "do_w_completed"
  /\ UpdateStepState(me.id, CurStep(r).name, Written(me, [status |-> "completed", result |-> me.result]))
  /\ runners' = [runners EXCEPT ![r].pc = "do_c_ret"]
  /\ UNCHANGED bodyRuns
  /\ RunnerFrame
  /\ Micro(r)

\* do(): updateStepState(failed)
DoWriteFailed(r) ==
  LET me == runners[r] IN
  /\ me.pc = "do_w_failed"
  /\ UpdateStepState(me.id, CurStep(r).name,
                     Written(me, [status |-> "failed", error |-> me.err, retries |-> me.att]))
  /\ runners' = [runners EXCEPT ![r].pc = "do_c_thr"]
  /\ UNCHANGED bodyRuns
  /\ RunnerFrame
  /\ Micro(r)

\* do(): the `await this.checkShutdown()` before `return result` and
\* before `throw new Error(errorMessage)`
DoCheckSettle(r) ==
  LET me == runners[r] IN
  /\ me.pc \in {"do_c_ret", "do_c_thr"}
  /\ runners' = [runners EXCEPT ![r] =
       CheckShutdown(me, IF me.pc = "do_c_ret"
                         THEN Settled(me, "ret", me.result, "")
                         ELSE Settled(me, "thr", None, me.err))]
  /\ UNCHANGED << stepStorage, bodyRuns >>
  /\ RunnerFrame
  /\ Micro(r)

\* do(): updateStepState(retrying) with retryEndTime = Date.now() + delay
DoWriteRetrying(r) ==
  LET me == runners[r] IN
  /\ me.pc = "do_w_retrying"
  /\ UpdateStepState(me.id, CurStep(r).name,
                     Written(me, [status |-> "retrying", retryEndTime |-> me.endTime, retries |-> me.att]))
  /\ runners' = [runners EXCEPT ![r].pc = "do_c_delay"]
  /\ UNCHANGED bodyRuns
  /\ RunnerFrame
  /\ Micro(r)

\* do(): checkShutdown, then setTimeout(resolve, delay)
DoCheckDelay(r) ==
  LET me == runners[r] IN
  /\ me.pc = "do_c_delay"
  /\ runners' = [runners EXCEPT ![r] =
       CheckShutdown(me, [me EXCEPT !.pc = "do_delay", !.wake = RetryDelay(CurStep(r))])]
  /\ UNCHANGED << stepStorage, bodyRuns >>
  /\ RunnerFrame
  /\ Micro(r)

\* do(): the backoff pause is over
DoDelayOver(r) ==
  LET me == runners[r] IN
  /\ me.pc = "do_delay"
  /\ me.wake = 0
  /\ Quiet
  /\ runners' = [runners EXCEPT ![r] = CheckShutdown(me, [me EXCEPT !.pc = "do_w_running2"])]
  /\ UNCHANGED << stepStorage, bodyRuns >>
  /\ RunnerFrame
  /\ Macro(r)

\* sleep() / sleepUntil(): after loadStepState; endTime is Date.now() + ms
\* for sleep and the target itself for sleepUntil
SleepLoaded(r) ==
  LET me == runners[r]
      ex == me.ex
      endTime == IF CurStep(r).op = "sleep" THEN SleepDuration(CurStep(r)).value
                 ELSE TargetDelay(CurStep(r), untilTarget) IN
  /\ me.pc = "sl_loaded"
  /\ runners' = [runners EXCEPT ![r] =
       IF IsSome(ex) /\ Val(ex).status = "completed"
       THEN CheckShutdown(me, Settled(me, "ret", None, ""))
       ELSE CheckShutdown(me, [me EXCEPT !.pc = "sl_w_sleeping", !.endTime = endTime])]
  /\ UNCHANGED << stepStorage, bodyRuns >>
  /\ RunnerFrame
  /\ Micro(r)

\* sleep() / sleepUntil(): updateStepState(sleeping)
SleepWriteSleeping(r) ==
  LET me == runners[r] IN
  /\ me.pc = "sl_w_sleeping"
  /\ UpdateStepState(me.id, CurStep(r).name,
                     Written(me, [status |-> "sleeping", sleepEndTime |-> me.endTime]))
  /\ runners' = [runners EXCEPT ![r].pc = "sl_remaining"]
  /\ UNCHANGED bodyRuns
  /\ RunnerFrame
  /\ Micro(r)

\* sleep() / sleepUntil(): remaining = endTime - Date.now()
SleepRemaining(r) ==
  LET me == runners[r] IN
  /\ me.pc = "sl_remaining"
  /\ runners' = [runners EXCEPT ![r] =
       IF me.endTime > 0
       THEN CheckShutdown(me, [me EXCEPT !.pc = "sl_timer", !.wake = me.endTime])
       ELSE CheckShutdown(me, [me EXCEPT !.pc = "sl_w_completed"])]
  /\ UNCHANGED << stepStorage, bodyRuns >>
  /\ RunnerFrame
  /\ Micro(r)

\* sleep() / sleepUntil(): the timer fired
SleepTimer(r) ==
  LET me == runners[r] IN
  /\ me.pc = "sl_timer"
  /\ me.wake = 0
  /\ Quiet
  /\ runners' = [runners EXCEPT ![r] = CheckShutdown(me, [me EXCEPT !.pc = "sl_w_completed"])]
  /\ UNCHANGED << stepStorage, bodyRuns >>
  /\ RunnerFrame
  /\ Macro(r)

\* sleep() / sleepUntil(): updateStepState(completed, result: undefined)
SleepWriteCompleted(r) ==
  LET me == runners[r] IN
  /\ me.pc = "sl_w_completed"
  /\ UpdateStepState(me.id, CurStep(r).name, Written(me, [status |-> "completed", result |-> None]))
  /\ runners' = [runners EXCEPT ![r] = Settled(me, "ret", None, "")]
  /\ UNCHANGED bodyRuns
  /\ RunnerFrame
  /\ Micro(r)


\* waitForEvent(): after loadStepState
WaitLoaded(r) ==
  LET me == runners[r]
      ex == me.ex IN
  /\ me.pc = "we_loaded"
  /\ runners' = [runners EXCEPT ![r] =
       IF IsSome(ex) /\ Val(ex).status = "completed"
       THEN CheckShutdown(me, Settled(me, "ret", Val(ex).result, ""))
       ELSE IF IsSome(ex) /\ Val(ex).status = "failed"
       THEN CheckShutdown(me, Settled(me, "thr", None, Val(ex).error))
       ELSE CheckShutdown(me, [me EXCEPT !.pc = "we_w_waiting"])]
  /\ UNCHANGED << stepStorage, bodyRuns >>
  /\ RunnerFrame
  /\ Micro(r)

\* waitForEvent(): updateStepState(waitingForEvent)
WaitWriteWaiting(r) ==
  LET me == runners[r] IN
  /\ me.pc = "we_w_waiting"
  /\ UpdateStepState(me.id, CurStep(r).name,
                     Written(me, [status |-> "waitingForEvent", waitEventType |-> CurStep(r).type,
                      waitTimeout |-> CurStep(r).timeout]))
  /\ runners' = [runners EXCEPT ![r].pc = "we_check"]
  /\ UNCHANGED bodyRuns
  /\ RunnerFrame
  /\ Micro(r)

\* waitForEvent(): `await this.checkShutdown()` before the race
WaitCheck(r) ==
  LET me == runners[r] IN
  /\ me.pc = "we_check"
  /\ runners' = [runners EXCEPT ![r] = CheckShutdown(me, [me EXCEPT !.pc = "we_register"])]
  /\ UNCHANGED << stepStorage, bodyRuns >>
  /\ RunnerFrame
  /\ Micro(r)

\* waitForEvent(): Promise.race of a listener, registered in the step
\* object's own eventListeners map, and a timer of timeoutMs
WaitRegister(r) ==
  LET me == runners[r] IN
  /\ me.pc = "we_register"
  /\ runners' = [runners EXCEPT ![r] =
       [me EXCEPT !.pc = "we_race", !.lst = me.lst \cup {CurStep(r).type},
                  !.wake = CurStep(r).timeout]]
  /\ UNCHANGED << stepStorage, bodyRuns >>
  /\ RunnerFrame
  /\ Micro(r)

\* LocalWorkflowStep.resolveEvent(type, payload): hands the payload to the
\* listener of the step object and removes it.  No code of the engine
\* calls it: WorkflowExecutor.sendEvent looks into the executor's own map.
ResolveEvent(me, type, payload) ==
  IF type \in me.lst
  THEN [me EXCEPT !.lst = me.lst \ {type},
                  !.result = IF me.pc = "we_race" THEN Some(payload) ELSE me.result,
                  !.pc = IF me.pc = "we_race" THEN "we_got" ELSE me.pc]
  ELSE me

\* waitForEvent(): the listener won the race
WaitGot(r) ==
  LET me == runners[r] IN
  /\ me.pc = "we_got"
  /\ runners' = [runners EXCEPT ![r] =
       CheckShutdown([me EXCEPT !.lst = me.lst \ {CurStep(r).type}],
                     [me EXCEPT !.pc = "we_w_completed", !.wake = 0,
                                !.lst = me.lst \ {CurStep(r).type}])]
  /\ UNCHANGED << stepStorage, bodyRuns >>
  /\ RunnerFrame
  /\ Micro(r)

\* waitForEvent(): updateStepState(completed)
WaitWriteCompleted(r) ==
  LET me == runners[r] IN
  /\ me.pc = "we_w_completed"
  /\ UpdateStepState(me.id, CurStep(r).name, Written(me, [status |-> "completed", result |-> me.result]))
  /\ runners' = [runners EXCEPT ![r].pc = "do_c_ret"]
  /\ UNCHANGED bodyRuns
  /\ RunnerFrame
  /\ Micro(r)

\* waitForEvent(): the timer won the race: reject(new Error("Timeout"))
WaitTimeout(r) ==
  LET me == runners[r] IN
  /\ me.pc = "we_race"
  /\ me.wake = 0
  /\ Quiet
  /\ runners' = [runners EXCEPT ![r] =
       CheckShutdown([me EXCEPT !.lst = me.lst \ {CurStep(r).type}],
                     [me EXCEPT !.pc = "we_w_failed", !.err = "Timeout",
                                !.lst = me.lst \ {CurStep(r).type}])]
  /\ UNCHANGED << stepStorage, bodyRuns >>
  /\ RunnerFrame
  /\ Macro(r)

\* waitForEvent(): updateStepState(failed) with getErrorMessage(error)
WaitWriteFailed(r) ==
  LET me == runners[r] IN
  /\ me.pc = "we_w_failed"
  /\ UpdateStepState(me.id, CurStep(r).name, Written(me, [status |-> "failed", error |-> getErrorMessage(Error(me.err))]))
  /\ runners' = [runners EXCEPT ![r].pc = "do_c_thr"]
  /\ UNCHANGED bodyRuns
  /\ RunnerFrame
  /\ Micro(r)


\* the run has ended: run() returned (its value is that of the last step
\* call) and the runner writes `complete`
RunReturns(r) ==
  LET me == runners[r] IN
  /\ me.pc = "enter"
  /\ me.ip > Len(Prog(wf))
  /\ IF Disabled(me.mgr)
     THEN /\ runners' = [runners EXCEPT ![r] = Stalled(me)]
          /\ UNCHANGED << storage, storageKeys >>
     ELSE /\ runners' = [runners EXCEPT ![r].pc = "finally"]
          /\ UpdateInstance(me.id, [status |-> "complete",
                                    output |-> IF Len(me.env) > 0 THEN me.env[Len(me.env)] ELSE None])
  /\ UNCHANGED << wf, gen, ops, sends, stepStorage, pendingEvents, mgrStorage, running, eventListeners,
                  call, rec, untilTarget, bodyRuns, calls >>
  /\ Micro(r)

\* run() has its step call inside try/catch
Catches(r) == runners[r].ip <= Len(Prog(wf)) /\ "catch" \in DOMAIN CurStep(r)

\* a step call inside try/catch threw: the handler returns
\* `caught: ${error.message}` from run()
RunCatches(r) ==
  LET me == runners[r] IN
  /\ me.pc = "thr"
  /\ me.outer = None
  /\ Catches(r)
  /\ runners' = [runners EXCEPT ![r] =
       [Settled(me, "enter", None, "") EXCEPT !.ip = Len(Prog(wf)) + 1,
                                              !.env = Append(me.env, Some("caught: " \o me.err))]]
  /\ UNCHANGED << stepStorage, bodyRuns >>
  /\ RunnerFrame
  /\ Micro(r)

\* the run has ended: a step call threw an Error, run() does not catch,
\* and the runner writes `errored` with getErrorMessage(error)
RunThrows(r) ==
  LET me == runners[r] IN
  /\ me.pc = "thr"
  /\ me.outer = None
  /\ ~Catches(r)
  /\ IF Disabled(me.mgr)
     THEN /\ runners' = [runners EXCEPT ![r] = Stalled(me)]
          /\ UNCHANGED << storage, storageKeys >>
     ELSE /\ runners' = [runners EXCEPT ![r].pc = "finally"]
          /\ UpdateInstance(me.id, [status |-> "errored",
                                    error |-> Some(getErrorMessage(Error(me.err)))])
  /\ UNCHANGED << wf, gen, ops, sends, stepStorage, pendingEvents, mgrStorage, running, eventListeners,
                  call, rec, untilTarget, bodyRuns, calls >>
  /\ Micro(r)

\* finally: if (this.running.get(instanceId) === step) this.running.delete(instanceId)
RunFinally(r) ==
  LET me == runners[r] IN
  /\ me.pc = "finally"
  /\ runners' = [runners EXCEPT ![r] =
                   [NewRunner(me.mgr, me.id, me.payload, "done") EXCEPT !.sd = me.sd,
                                                                      !.gen = me.gen]]
  /\ running' = IF running[me.mgr][me.id] = r
                THEN [running EXCEPT ![me.mgr][me.id] = 0] ELSE running
  /\ UNCHANGED << wf, gen, ops, sends, storage, storageKeys, stepStorage, pendingEvents, mgrStorage,
                  eventListeners, call, rec, untilTarget, bodyRuns, calls >>
  /\ Micro(r)

\* startInstance: a new step object and a new run; the run's first
\* statement, updateInstance(running), is applied at once, then
\* this.running.set(instanceId, step)
StartInstance(m, id, payload) ==
  /\ Len(runners) < MaxRunners
  /\ runners' = Append(runners, NewRunner(m, id, payload,
                                          IF Disabled(m) THEN DISABLED_PROMISE ELSE "enter"))
  /\ IF Disabled(m)
     THEN UNCHANGED << storage, storageKeys >>
     ELSE UpdateInstance(id, [status |-> "running"])
  /\ running' = [running EXCEPT ![m][id] = Len(runners) + 1]

\* ------------------------------------------------- calls on the manager
\* one more call is made on a manager or a handle
Op == ops < MaxOps /\ ops' = ops + 1

\* A call on a manager whose storage is the disabled one is suspended for
\* ever at its first storage operation.
Hung(m, op) == calls' = [calls EXCEPT ![m].hung = @ \cup {op}, ![m].issued = @ \cup {op}]
Passed(m, op) ==
  calls' = [calls EXCEPT ![m].passed = IF calls[m].shut THEN @ \cup {op} ELSE @,
                         ![m].issued = @ \cup {op}]

NewCall(op, pc0, m, id, payload) ==
  Some([op |-> op, pc |-> pc0, mgr |-> m, id |-> id, payload |-> payload])

\* createInstance, up to `await this.storage.saveInstance(id, initialState)`
CreateInstance(m, id, v) ==
  /\ call = None
  /\ Len(runners) < MaxRunners
  /\ IF Disabled(m)
     THEN /\ Hung(m, "create")
          /\ UNCHANGED << storage, storageKeys, call >>
     ELSE /\ SaveInstance(id, [status |-> "queued", output |-> None, error |-> None,
                               event |-> Some([payload |-> v, instanceId |-> id])])
          /\ call' = NewCall("create", "spawn", m, id, v)
          /\ Passed(m, "create")
  /\ UNCHANGED << wf, gen, sends, stepStorage, pendingEvents, mgrStorage, running, eventListeners,
                  runners, rec, untilTarget, bodyRuns >>
  /\ Op
  /\ queue' = queue \o (IF call' = None THEN <<>> ELSE <<CallId>>)

AnyStatus(state) == IsSome(state)

\* resumeInstance: the instance was found and `state.status !== "paused"`
\* did not return
Resumable(state) == IsSome(state) /\ Val(state).status = "paused"

\* resumeInstance, up to `await this.storage.updateInstance(running)`
ResumeInstance(m, id) ==
  LET state == LoadInstance(id) IN
  /\ call = None
  /\ Len(runners) < MaxRunners
  /\ IF Disabled(m)
     THEN Hung(m, "resume") /\ UNCHANGED call
     ELSE /\ Passed(m, "resume")
          /\ call' = IF Resumable(state)
                     THEN NewCall("resume", "update", m, id, Val(Val(state).event).payload)
                     ELSE None
  /\ UNCHANGED << wf, gen, sends, storage, storageKeys, stepStorage, pendingEvents, mgrStorage, running,
                  eventListeners, runners, rec, untilTarget, bodyRuns >>
  /\ Op
  /\ queue' = queue \o (IF call' = None THEN <<>> ELSE <<CallId>>)

\* restartInstance, up to `await this.storage.updateInstance(queued)`
RestartInstance(m, id) ==
  LET state == LoadInstance(id)
      step == running[m][id] IN
  /\ call = None
  /\ Len(runners) < MaxRunners
  /\ runners' = IF step # 0 THEN [runners EXCEPT ![step].sd = TRUE] ELSE runners
  /\ IF Disabled(m)
     THEN Hung(m, "restart") /\ UNCHANGED call
     ELSE /\ Passed(m, "restart")
          /\ call' = IF IsSome(state)
                     THEN NewCall("restart", "update", m, id, Val(Val(state).event).payload)
                     ELSE None
  /\ UNCHANGED << wf, gen, sends, storage, storageKeys, stepStorage, pendingEvents, mgrStorage, running,
                  eventListeners, rec, untilTarget, bodyRuns >>
  /\ Op
  /\ queue' = queue \o (IF call' = None THEN <<>> ELSE <<CallId>>)

\* LocalWorkflow.createBatch: Promise.all(batch.map(create)). Every
\* create runs up to its `await saveInstance`, which stores the record at
\* once; `fails` are the entries whose saveInstance the storage rejects.
RECURSIVE SaveAll(_, _, _, _)
SaveAll(store, keys, batch, fails) ==
  IF batch = <<>> THEN << store, keys >>
  ELSE LET e == Head(batch) IN
       IF Head(fails)
       THEN SaveAll(store, keys, Tail(batch), Tail(fails))
       ELSE SaveAll(MapSet(store, e.id, [status |-> "queued", output |-> None, error |-> None,
                                          event |-> Some([payload |-> e.params, instanceId |-> e.id])]),
                    KeysAdd(keys, e.id), Tail(batch), Tail(fails))

CreateBatch(m, batch, fails) ==
  /\ call = None
  /\ Len(runners) + Len(batch) <= MaxRunners
  /\ IF Disabled(m)
     THEN /\ Hung(m, "createBatch")
          /\ UNCHANGED << storage, storageKeys, call >>
     ELSE /\ storage' = SaveAll(storage, storageKeys, batch, fails)[1]
          /\ storageKeys' = SaveAll(storage, storageKeys, batch, fails)[2]
          /\ call' = Some([op |-> "createBatch", pc |-> "batch", mgr |-> m, id |-> batch[1].id,
                           payload |-> batch[1].params, batch |-> batch, fails |-> fails,
                           next |-> 1, settled |-> <<>>])
          /\ Passed(m, "createBatch")
  /\ UNCHANGED << wf, gen, sends, stepStorage, pendingEvents, mgrStorage, running, eventListeners,
                  runners, rec, untilTarget, bodyRuns >>
  /\ Op
  /\ queue' = queue \o (IF call' = None THEN <<>> ELSE <<CallId>>)

AllSettled(settled) ==
  LET RECURSIVE Fulfilled(_)
      Fulfilled(q) == IF q = <<>> THEN <<>>
                      ELSE IF IsSome(Head(q)) THEN <<Val(Head(q))>> \o Fulfilled(Tail(q))
                      ELSE Fulfilled(Tail(q)) IN
  Some(Fulfilled(settled))

\* Promise.all: the values in the order of the promises when all are
\* fulfilled, rejected when one is rejected
PromiseAll(settled) ==
  IF \E n \in 1..Len(settled) : settled[n] = None
  THEN None
  ELSE Some([n \in 1..Len(settled) |-> Val(settled[n])])

\* createBatch: the continuation of the next create: the handle,
\* startInstance and `return instance`, or the rejection of saveInstance;
\* after the last one the caller has the outcome of Promise.all
BatchNext ==
  /\ IsSome(call)
  /\ Val(call).pc = "batch"
  /\ LET c == Val(call)
         e == c.batch[c.next]
         settled == Append(c.settled, IF c.fails[c.next] THEN None ELSE Some(e.id)) IN
     /\ IF c.fails[c.next]
        THEN UNCHANGED << runners, storage, storageKeys, running >>
        ELSE StartInstance(c.mgr, e.id, e.params)
     /\ IF c.next = Len(c.batch)
        THEN /\ call' = None
             /\ calls' = [calls EXCEPT ![c.mgr].batches =
                            Append(@, [ids |-> [n \in 1..Len(c.batch) |-> c.batch[n].id],
                                       fails |-> c.fails,
                                       handles |-> PromiseAll(settled)])]
        ELSE /\ call' = Some([c EXCEPT !.next = c.next + 1, !.settled = settled])
             /\ UNCHANGED calls
  /\ UNCHANGED << wf, gen, ops, sends, stepStorage, pendingEvents, mgrStorage, eventListeners, rec,
                  untilTarget, bodyRuns >>
  /\ queue # <<>>
  /\ Head(queue) = CallId
  /\ queue' = (IF call' = None THEN <<>> ELSE <<CallId>>) \o Tail(queue) \o Spawned

\* resumeInstance / restartInstance: updateInstance(running | queued)
CallUpdate ==
  /\ IsSome(call)
  /\ Val(call).pc = "update"
  /\ IF Disabled(Val(call).mgr)
     THEN call' = None /\ UNCHANGED << storage, storageKeys >>
     ELSE /\ UpdateInstance(Val(call).id,
               [status |-> IF Val(call).op = "resume" THEN "running" ELSE "queued"])
          /\ call' = Some([Val(call) EXCEPT !.pc =
                             IF Val(call).op = "resume" THEN "spawn" ELSE "clear"])
  /\ UNCHANGED << wf, gen, ops, sends, stepStorage, pendingEvents, mgrStorage, running, eventListeners,
                  runners, rec, untilTarget, bodyRuns, calls >>
  /\ MicroCall

\* restartInstance: clearAllStepStates
CallClear ==
  /\ IsSome(call)
  /\ Val(call).pc = "clear"
  /\ IF Disabled(Val(call).mgr)
     THEN call' = None /\ UNCHANGED << stepStorage, gen >>
     ELSE /\ ClearAllStepStates(Val(call).id)
          /\ gen' = gen + 1
          /\ call' = Some([Val(call) EXCEPT !.pc = "spawn"])
  /\ UNCHANGED << wf, ops, sends, storage, storageKeys, pendingEvents, mgrStorage, running,
                  eventListeners, runners, rec, untilTarget, bodyRuns, calls >>
  /\ MicroCall

\* createInstance / resumeInstance / restartInstance: this.running.delete
\* (the latter two) and startInstance
CallSpawn ==
  /\ IsSome(call)
  /\ Val(call).pc = "spawn"
  /\ StartInstance(Val(call).mgr, Val(call).id, Val(call).payload)
  /\ call' = None
  /\ UNCHANGED << wf, gen, ops, sends, stepStorage, pendingEvents, mgrStorage, eventListeners, rec,
                  untilTarget, bodyRuns, calls >>
  /\ MicroSpawn(CallId)

\* LocalWorkflowInstance.pause / terminate: updateInstance on the
\* manager's storage; "not found" is swallowed
SetStatus(m, id, op, status) ==
  /\ IF Disabled(m)
     THEN Hung(m, op) /\ UNCHANGED << storage, storageKeys >>
     ELSE /\ Passed(m, op)
          /\ IF id \in DOMAIN storage
             THEN UpdateInstance(id, [status |-> status])
             ELSE UNCHANGED << storage, storageKeys >>
  /\ UNCHANGED << wf, gen, sends, stepStorage, pendingEvents, mgrStorage, running, eventListeners,
                  runners, call, rec, untilTarget, bodyRuns >>
  /\ Op
  /\ UNCHANGED queue

Pause(m, id) == SetStatus(m, id, "pause", "paused")
Terminate(m, id) == SetStatus(m, id, "terminate", "terminated")

\* LocalWorkflowInstance.status / LocalWorkflow.get: loadInstance
ReadInstance(m, id, op) ==
  /\ IF Disabled(m) THEN Hung(m, op) ELSE Passed(m, op)
  /\ UNCHANGED << wf, gen, sends, storage, storageKeys, stepStorage, pendingEvents, mgrStorage, running,
                  eventListeners, runners, call, rec, untilTarget, bodyRuns >>
  /\ Op
  /\ UNCHANGED queue

Status(m, id) == ReadInstance(m, id, "status")

\* WorkflowExecutor.getInstance: loadInstance, `Instance not found` when
\* it yields null, a new handle otherwise
Get(m, id) ==
  /\ IF Disabled(m)
     THEN Hung(m, "get")
     ELSE calls' = [calls EXCEPT
            ![m].passed = IF calls[m].shut THEN @ \cup {"get"} ELSE @,
            ![m].issued = @ \cup {"get"},
            ![m].got = Append(@, [id |-> id, found |-> IsSome(LoadInstance(id))])]
  /\ UNCHANGED << wf, gen, sends, storage, storageKeys, stepStorage, pendingEvents, mgrStorage, running,
                  eventListeners, runners, call, rec, untilTarget, bodyRuns >>
  /\ Op
  /\ UNCHANGED queue

\* WorkflowExecutor.sendEvent: a listener of the executor's map, if there
\* is one for (instance, type), is called and removed; nothing else
\* a waitForEvent of this type is waiting on the instance
HasWaiter(id, type) ==
  \E r \in Runners : runners[r].id = id /\ runners[r].pc = "we_race" /\ type \in runners[r].lst

SendEvent(m, id, type, payload) ==
  /\ eventListeners' = [eventListeners EXCEPT ![m] = @ \ {<<id, type>>}]
  /\ UNCHANGED << wf, gen, storage, storageKeys, stepStorage, pendingEvents, mgrStorage, running,
                  runners, call, rec, untilTarget, bodyRuns, calls >>
  /\ sends' = Append(sends, [id |-> id, type |-> type, payload |-> payload,
                              waiting |-> HasWaiter(id, type)])
  /\ Op
  /\ UNCHANGED queue

\* WorkflowExecutor.shutdown: shutdown() on every running step object,
\* running.clear(), and the storage becomes the disabled one
Shutdown(m) ==
  /\ runners' = [r \in Runners |->
                   IF \E id \in InstanceIds : running[m][id] = r
                   THEN [runners[r] EXCEPT !.sd = TRUE] ELSE runners[r]]
  /\ running' = [running EXCEPT ![m] = [id \in InstanceIds |-> 0]]
  /\ mgrStorage' = [mgrStorage EXCEPT ![m] = "disabled"]
  /\ calls' = [calls EXCEPT ![m].shut = TRUE, ![m].issued = @ \cup {"shutdown"}]
  /\ UNCHANGED << wf, gen, sends, storage, storageKeys, stepStorage, pendingEvents, eventListeners,
                  call, rec, untilTarget, bodyRuns >>
  /\ Op
  /\ UNCHANGED queue


\* --------------------------------------------------------- recoverAll
\* recoverAll, up to `await this.storage.listActiveInstances()`
Recover(m) ==
  /\ rec = None
  /\ IF Disabled(m)
     THEN Hung(m, "recover") /\ UNCHANGED rec
     ELSE /\ calls' = [calls EXCEPT ![m].passed = IF calls[m].shut THEN @ \cup {"recover"} ELSE @,
                                    ![m].issued = @ \cup {"recover"},
                                    ![m].seen = storage,
                                    ![m].spawned = {},
                                    ![m].recovered = FALSE]
          /\ rec' = Some([mgr |-> m, pc |-> "load", ids |-> ListActiveInstances, r |-> 0])
  /\ UNCHANGED << wf, gen, sends, storage, storageKeys, stepStorage, pendingEvents, mgrStorage, running,
                  eventListeners, runners, call, untilTarget, bodyRuns >>
  /\ Op
  /\ queue' = queue \o (IF rec' = None THEN <<>> ELSE <<RecId>>)

RecNext == Some([Val(rec) EXCEPT !.pc = "load", !.ids = Tail(@), !.r = 0])
RecFrame == UNCHANGED << wf, gen, ops, sends, stepStorage, pendingEvents, mgrStorage, eventListeners, call,
                         untilTarget, bodyRuns >>
\* what the recoverAll call in flight has done so far
RecStarts(id) == calls' = [calls EXCEPT ![Val(rec).mgr].spawned = @ \cup {id}]
RecReturns == calls' = [calls EXCEPT ![Val(rec).mgr].recovered = TRUE]

\* (variant: recoverAll returns without starting anything)
RecoverNothing ==
  /\ IsSome(rec)
  /\ Val(rec).pc = "load"
  /\ rec' = None
  /\ UNCHANGED << storage, storageKeys, runners, running, calls >>
  /\ RecFrame
  /\ MicroSpawn(RecId)

\* the loop of recoverAll: `await loadInstance(id)` and the branch on the
\* status; startInstance for queued / running / waiting / waitingForPause
RecLoad ==
  /\ IsSome(rec)
  /\ Val(rec).pc = "load"
  /\ LET me == Val(rec) IN
     IF Disabled(me.mgr)
     THEN rec' = None /\ UNCHANGED << storage, storageKeys, runners, running, calls >>
     ELSE IF me.ids = <<>>
     THEN rec' = None /\ RecReturns /\ UNCHANGED << storage, storageKeys, runners, running >>
     ELSE LET id == Head(me.ids)
              state == LoadInstance(id) IN
          IF state = None
          THEN rec' = RecNext /\ UNCHANGED << storage, storageKeys, runners, running, calls >>
          ELSE IF Val(state).status = "paused"
          THEN /\ rec' = Some([me EXCEPT !.pc = "resume"])
               /\ UNCHANGED << storage, storageKeys, runners, running, calls >>
          ELSE IF Val(state).status \in {"queued", "running", "waiting", "waitingForPause"}
          THEN /\ StartInstance(me.mgr, id, Val(Val(state).event).payload)
               /\ RecStarts(id)
               /\ rec' = Some([me EXCEPT !.pc = "wait", !.r = Len(runners) + 1])
          ELSE rec' = RecNext /\ UNCHANGED << storage, storageKeys, runners, running, calls >>
  /\ RecFrame
  /\ MicroSpawn(RecId)

\* resumeInstance called by recoverAll: loadInstance and the status guard
RecResume ==
  /\ IsSome(rec)
  /\ Val(rec).pc = "resume"
  /\ LET me == Val(rec)
         state == LoadInstance(Head(me.ids)) IN
     rec' = IF Disabled(me.mgr) \/ state = None THEN None
            ELSE IF Val(state).status # "paused" THEN RecNext
            ELSE Some([me EXCEPT !.pc = "update"])
  /\ UNCHANGED << storage, storageKeys, runners, running, calls >>
  /\ RecFrame
  /\ MicroRec

\* resumeInstance called by recoverAll: updateInstance(running)
RecUpdate ==
  /\ IsSome(rec)
  /\ Val(rec).pc = "update"
  /\ IF Disabled(Val(rec).mgr)
     THEN rec' = None /\ UNCHANGED << storage, storageKeys >>
     ELSE /\ UpdateInstance(Head(Val(rec).ids), [status |-> "running"])
          /\ rec' = Some([Val(rec) EXCEPT !.pc = "spawn"])
  /\ UNCHANGED << runners, running, calls >>
  /\ RecFrame
  /\ MicroRec

\* resumeInstance called by recoverAll: running.delete and startInstance
RecSpawn ==
  /\ IsSome(rec)
  /\ Val(rec).pc = "spawn"
  /\ LET me == Val(rec)
         state == LoadInstance(Head(me.ids)) IN
     /\ StartInstance(me.mgr, Head(me.ids), Val(Val(state).event).payload)
     /\ RecStarts(Head(me.ids))
     /\ rec' = Some([me EXCEPT !.pc = "wait", !.r = Len(runners) + 1])
  /\ RecFrame
  /\ MicroSpawn(RecId)

\* `await this.startInstance(...)`: the loop goes on when the run has
\* ended; it never does when the run is suspended for ever
RecWait ==
  /\ IsSome(rec)
  /\ Val(rec).pc = "wait"
  /\ runners[Val(rec).r].pc \in {"done", DISABLED_PROMISE}
  /\ rec' = IF runners[Val(rec).r].pc = "done" THEN RecNext ELSE None
  /\ UNCHANGED << storage, storageKeys, runners, running, calls >>
  /\ RecFrame
  /\ queue' = queue \o (IF rec' = None THEN <<>> ELSE <<RecId>>)

\* ---------------------------------------------------------------- time
\* Date.now() advances by one unit: every deadline and timer, kept
\* relative to now, gets one unit closer
DecState(st) ==
  IF "sleepEndTime" \in DOMAIN st THEN [st EXCEPT !.sleepEndTime = Dec(@)]
  ELSE IF "retryEndTime" \in DOMAIN st THEN [st EXCEPT !.retryEndTime = Dec(@)]
  ELSE st

Tick ==
  /\ Quiet
  /\ runners' = [r \in Runners |->
                   [runners[r] EXCEPT !.wake = Dec(@), !.endTime = Dec(@),
                                      !.ex = IF IsSome(@) THEN Some(DecState(Val(@))) ELSE @]]
  /\ stepStorage' = [k \in DOMAIN stepStorage |-> DecState(stepStorage[k])]
  /\ untilTarget' = Dec(untilTarget)
  /\ UNCHANGED << wf, gen, ops, sends, storage, storageKeys, pendingEvents, mgrStorage, running,
                  eventListeners, call, rec, bodyRuns, calls >>
  /\ UNCHANGED queue

\* -------------------------------------------------------- specification
EmptyMap == [k \in {} |-> None]

Init ==
  /\ wf \in Workflows
  /\ storage = EmptyMap
  /\ storageKeys = <<>>
  /\ stepStorage = EmptyMap
  /\ pendingEvents = EmptyMap
  /\ mgrStorage = [m \in Mgrs |-> "memory"]
  /\ running = [m \in Mgrs |-> [id \in InstanceIds |-> 0]]
  /\ eventListeners = [m \in Mgrs |-> {}]
  /\ runners = <<>>
  /\ call = None
  /\ rec = None
  /\ untilTarget = UntilMs
  /\ bodyRuns = EmptyMap
  /\ calls = [m \in Mgrs |-> [shut |-> FALSE, hung |-> {}, passed |-> {}, issued |-> {},
                               seen |-> EmptyMap, spawned |-> {}, recovered |-> FALSE,
                               got |-> <<>>, batches |-> <<>>, last |-> None]]
  /\ ops = 0
  /\ sends = <<>>
  /\ queue = <<>>
  /\ gen = 0

\* Life cycle: a manager runs a workflow of work and sleep steps, and its
\* instance is paused, resumed and restarted through its handle at any
\* moment
InitLife == Init /\ wf \in {"Pausable", "Until"}

NextLife ==
  \/ \E r \in Runners : Enter(r)
  \/ \E r \in Runners : StepReturn(r)
  \/ \E r \in Runners : RunReturns(r)
  \/ \E r \in Runners : RunThrows(r)
  \/ \E r \in Runners : RunFinally(r)
  \/ \E r \in Runners : DoLoaded(r)
  \/ \E r \in Runners : DoWriteRunning(r)
  \/ \E r \in Runners : DoCheck(r)
  \/ \E r \in Runners : DoInvoke(r)
  \/ \E r \in Runners : DoBodyReturns(r)
  \/ \E r \in Runners : DoWriteCompleted(r)
  \/ \E r \in Runners : DoCheckSettle(r)
  \/ \E r \in Runners : SleepLoaded(r)
  \/ \E r \in Runners : SleepWriteSleeping(r)
  \/ \E r \in Runners : SleepRemaining(r)
  \/ \E r \in Runners : SleepTimer(r)
  \/ \E r \in Runners : SleepWriteCompleted(r)
  \/ \E id \in {"a"} \ DOMAIN storage, v \in ParamValues : CreateInstance(1, id, v)
  \/ \E id \in {"a"} \cap DOMAIN storage : Pause(1, id)
  \/ \E id \in {"a"} \cap DOMAIN storage : ResumeInstance(1, id)
  \/ \E id \in {"a"} \cap DOMAIN storage : RestartInstance(1, id)
  \/ CallUpdate
  \/ CallClear
  \/ CallSpawn
  \/ Tick

Spec == InitLife /\ [][NextLife]_vars

\* Events: one manager runs the single-event workflow and events are sent
\* to its instance at any moment
InitEvents == Init /\ wf = "SingleEvent"

NextEvents ==
  \/ \E r \in Runners : Enter(r)
  \/ \E r \in Runners : RunThrows(r)
  \/ \E r \in Runners : RunFinally(r)
  \/ \E r \in Runners : WaitLoaded(r)
  \/ \E r \in Runners : WaitWriteWaiting(r)
  \/ \E r \in Runners : WaitCheck(r)
  \/ \E r \in Runners : WaitRegister(r)
  \/ \E r \in Runners : WaitTimeout(r)
  \/ \E r \in Runners : WaitWriteFailed(r)
  \/ \E r \in Runners : DoCheckSettle(r)
  \/ \E id \in {"a"} \ DOMAIN storage, v \in ParamValues : CreateInstance(1, id, v)
  \/ \E id \in {"a"} \cap DOMAIN storage, p \in Payloads :
       SendEvent(1, id, EventType, p)
  \/ CallSpawn
  \/ Tick

SpecEvents == InitEvents /\ [][NextEvents]_vars

\* Shutdown: a manager runs the retry workflow and is shut down at any
\* moment; calls go on being made on it afterwards, and a second manager
\* on the same storage recovers at any moment
InitShutdown == Init /\ wf = "Retry"

NextShutdown ==
  \/ \E r \in Runners : Enter(r)
  \/ \E r \in Runners : StepReturn(r)
  \/ \E r \in Runners : RunReturns(r)
  \/ \E r \in Runners : RunThrows(r)
  \/ \E r \in Runners : RunFinally(r)
  \/ \E r \in Runners : DoLoaded(r)
  \/ \E r \in Runners : DoRetryWaited(r)
  \/ \E r \in Runners : DoWriteRunning(r)
  \/ \E r \in Runners : DoCheck(r)
  \/ \E r \in Runners : DoInvoke(r)
  \/ \E r \in Runners : DoBodyReturns(r)
  \/ \E r \in Runners : DoBodyThrows(r)
  \/ \E r \in Runners : DoWriteCompleted(r)
  \/ \E r \in Runners : DoWriteFailed(r)
  \/ \E r \in Runners : DoCheckSettle(r)
  \/ \E r \in Runners : DoWriteRetrying(r)
  \/ \E r \in Runners : DoCheckDelay(r)
  \/ \E r \in Runners : DoDelayOver(r)
  \/ \E id \in {"a"} \ DOMAIN storage, v \in ParamValues : CreateInstance(1, id, v)
  \/ ~calls[1].shut /\ Shutdown(1)
  \/ calls[1].shut /\ CreateInstance(1, "b", 5)
  \/ calls[1].shut /\ Status(1, "a")
  \/ calls[1].shut /\ Get(1, "a")
  \/ calls[1].shut /\ ResumeInstance(1, "a")
  \/ calls[1].shut /\ RestartInstance(1, "a")
  \/ calls[1].shut /\ Recover(1)
  \/ Recover(2)
  \/ CallSpawn
  \/ RecLoad
  \/ RecWait
  \/ Tick

SpecShutdown == InitShutdown /\ [][NextShutdown]_vars

\* Retries and errors: one instance of a workflow whose only step is a
\* do(), run without interruption by one manager.
RetryWorkflows == {"RetryWorkflow", "NonRetryWorkflow", "ExponentialBackoffWorkflow",
                   "ErrorHandlingWorkflow", "StringDelayWorkflow"}

InitRetry == Init /\ wf \in RetryWorkflows

NextRetry ==
  \/ \E r \in Runners : Enter(r)
  \/ \E r \in Runners : StepReturn(r)
  \/ \E r \in Runners : RunReturns(r)
  \/ \E r \in Runners : RunCatches(r)
  \/ \E r \in Runners : RunThrows(r)
  \/ \E r \in Runners : RunFinally(r)
  \/ \E r \in Runners : DoLoaded(r)
  \/ \E r \in Runners : DoWriteRunning(r)
  \/ \E r \in Runners : DoCheck(r)
  \/ \E r \in Runners : DoInvoke(r)
  \/ \E r \in Runners : DoBodyReturns(r)
  \/ \E r \in Runners : DoBodyThrows(r)
  \/ \E r \in Runners : DoWriteCompleted(r)
  \/ \E r \in Runners : DoWriteFailed(r)
  \/ \E r \in Runners : DoCheckSettle(r)
  \/ \E r \in Runners : DoWriteRetrying(r)
  \/ \E r \in Runners : DoCheckDelay(r)
  \/ \E r \in Runners : DoDelayOver(r)
  \/ \E id \in {"a"} \ DOMAIN storage, v \in ParamValues : CreateInstance(1, id, v)
  \/ Status(1, "a")
  \/ CallSpawn
  \/ Tick

SpecRetry == InitRetry /\ [][NextRetry]_vars

\* Continuation: the instance of the three-step workflow is interrupted,
\* by pause() or by shutdown(), while its run sleeps between the two work
\* steps, and is then continued by resume() or by recover() on a second
\* manager that shares the storage
InitResume == Init /\ wf = "Pausable"

Sleeping(id) == \E r \in Runners : runners[r].id = id /\ runners[r].pc = "sl_timer"
Interrupted == "pause" \in calls[1].issued \/ calls[1].shut
Continued == "resume" \in calls[1].issued \/ "recover" \in calls[2].issued

NextResume ==
  \/ \E r \in Runners : Enter(r)
  \/ \E r \in Runners : StepReturn(r)
  \/ \E r \in Runners : RunReturns(r)
  \/ \E r \in Runners : RunFinally(r)
  \/ \E r \in Runners : DoLoaded(r)
  \/ \E r \in Runners : DoWriteRunning(r)
  \/ \E r \in Runners : DoCheck(r)
  \/ \E r \in Runners : DoInvoke(r)
  \/ \E r \in Runners : DoBodyReturns(r)
  \/ \E r \in Runners : DoWriteCompleted(r)
  \/ \E r \in Runners : DoCheckSettle(r)
  \/ \E r \in Runners : SleepLoaded(r)
  \/ \E r \in Runners : SleepWriteSleeping(r)
  \/ \E r \in Runners : SleepRemaining(r)
  \/ \E r \in Runners : SleepTimer(r)
  \/ \E r \in Runners : SleepWriteCompleted(r)
  \/ "a" \notin DOMAIN storage /\ CreateInstance(1, "a", 5)
  \/ Sleeping("a") /\ ~Interrupted /\ Pause(1, "a")
  \/ Sleeping("a") /\ ~Interrupted /\ Shutdown(1)
  \/ "pause" \in calls[1].issued /\ ResumeInstance(1, "a")
  \/ Interrupted /\ Recover(2)
  \/ CallUpdate
  \/ CallSpawn
  \/ RecLoad
  \/ RecResume
  \/ RecUpdate
  \/ RecSpawn
  \/ RecWait
  \/ Tick

\* Recovery: a manager is constructed on a storage that holds the records
\* of two instances of the three-step workflow, of any status, with or
\* without their event, and recover() is called on it
Statuses == {"queued", "running", "paused", "waiting", "waitingForPause",
             "complete", "errored", "terminated"}
Record(id, status, hasEvent) ==
  [status |-> status, output |-> None, error |-> None,
   event |-> IF hasEvent THEN Some([payload |-> 5, instanceId |-> id]) ELSE None]

InitRecovery ==
  /\ Init
  /\ wf = "Pausable"

SeedRecovery ==
  \E sa, sb \in Statuses, ea, eb \in BOOLEAN :
    /\ storage = EmptyMap
    /\ storage' = [id \in {"a", "b"} |->
                     IF id = "a" THEN Record(id, sa, ea) ELSE Record(id, sb, eb)]
    /\ storageKeys' = <<"a", "b">>
    /\ UNCHANGED << wf, stepStorage, pendingEvents, mgrStorage, running, eventListeners,
                    runners, call, rec, untilTarget, bodyRuns, calls, ops, sends, queue, gen >>

NextRecovery ==
  \/ SeedRecovery
  \/ \E r \in Runners : Enter(r)
  \/ \E r \in Runners : StepReturn(r)
  \/ \E r \in Runners : RunReturns(r)
  \/ \E r \in Runners : RunFinally(r)
  \/ \E r \in Runners : DoLoaded(r)
  \/ \E r \in Runners : DoWriteRunning(r)
  \/ \E r \in Runners : DoCheck(r)
  \/ \E r \in Runners : DoInvoke(r)
  \/ \E r \in Runners : DoBodyReturns(r)
  \/ \E r \in Runners : DoWriteCompleted(r)
  \/ \E r \in Runners : DoCheckSettle(r)
  \/ \E r \in Runners : SleepLoaded(r)
  \/ \E r \in Runners : SleepWriteSleeping(r)
  \/ \E r \in Runners : SleepRemaining(r)
  \/ \E r \in Runners : SleepTimer(r)
  \/ \E r \in Runners : SleepWriteCompleted(r)
  \/ storage # EmptyMap /\ calls[1].issued = {} /\ Recover(1)
  \/ RecLoad
  \/ RecResume
  \/ RecUpdate
  \/ RecSpawn
  \/ RecWait
  \/ Tick

SpecRecovery == InitRecovery /\ [][NextRecovery]_vars

\* Handles: a manager of SimpleWorkflow whose storage may already hold a
\* record "b" of any status, with or without event; instance "a" is
\* created, looked up and terminated, and "b" is looked up and resumed.
InitHandles == Init /\ wf = "SimpleWorkflow"

SeedHandles ==
  \E sb \in Statuses, eb \in BOOLEAN :
    /\ storage = EmptyMap
    /\ ops = 0
    /\ storage' = [id \in {"b"} |-> Record(id, sb, eb)]
    /\ storageKeys' = <<"b">>
    /\ UNCHANGED << wf, stepStorage, pendingEvents, mgrStorage, running, eventListeners,
                    runners, call, rec, untilTarget, bodyRuns, calls, ops, sends, queue, gen >>

NextHandles ==
  \/ \E r \in Runners : Enter(r)
  \/ \E r \in Runners : StepReturn(r)
  \/ \E r \in Runners : RunReturns(r)
  \/ \E r \in Runners : RunFinally(r)
  \/ \E r \in Runners : DoLoaded(r)
  \/ \E r \in Runners : DoWriteRunning(r)
  \/ \E r \in Runners : DoCheck(r)
  \/ \E r \in Runners : DoInvoke(r)
  \/ \E r \in Runners : DoBodyReturns(r)
  \/ \E r \in Runners : DoWriteCompleted(r)
  \/ \E r \in Runners : DoCheckSettle(r)
  \/ SeedHandles
  \/ \E id \in {"a"} \ DOMAIN storage, v \in ParamValues : CreateInstance(1, id, v)
  \/ \E id \in InstanceIds : Get(1, id)
  \/ ResumeInstance(1, "b")
  \/ Terminate(1, "a")
  \/ CallUpdate
  \/ CallSpawn

SpecHandles == InitHandles /\ [][NextHandles]_vars

\* Batches: a manager of SimpleWorkflow on which createBatch is called with
\* two entries, in either order, on a storage that may reject a save.
Batches == { << [id |-> "a", params |-> 5], [id |-> "b", params |-> 5] >>,
             << [id |-> "b", params |-> 5], [id |-> "a", params |-> 5] >> }

InitBatch == Init /\ wf = "SimpleWorkflow"

NextBatch ==
  \/ \E r \in Runners : Enter(r)
  \/ \E r \in Runners : StepReturn(r)
  \/ \E r \in Runners : RunReturns(r)
  \/ \E r \in Runners : RunFinally(r)
  \/ \E r \in Runners : DoLoaded(r)
  \/ \E r \in Runners : DoWriteRunning(r)
  \/ \E r \in Runners : DoCheck(r)
  \/ \E r \in Runners : DoInvoke(r)
  \/ \E r \in Runners : DoBodyReturns(r)
  \/ \E r \in Runners : DoWriteCompleted(r)
  \/ \E r \in Runners : DoCheckSettle(r)
  \/ \E batch \in Batches, fails \in [1..2 -> BOOLEAN] :
       storage = EmptyMap /\ CreateBatch(1, batch, fails)
  \/ BatchNext
  \/ \E id \in InstanceIds : Get(1, id)

SpecBatch == InitBatch /\ [][NextBatch]_vars

\* Storage: the operations of InMemoryWorkflowStorage called directly, on
\* an instance "a" and an instance whose id starts with "a:".
StorageIds == {"a", "a:b"}
StepNames == {"s"}
JsNull == "null"
\* payloads of a pending event: a value, null, and undefined (None)
PendingPayloads == {Some("event-data"), Some(JsNull), None}
StepStates == {[status |-> "completed", result |-> Some(5), gen |-> 0]}

\* deleteInstance: this.storage.delete(id), and every checkpoint whose key
\* starts with "id:" is deleted
DeleteInstance(id) ==
  LET Other(k) == k # id IN
  /\ storage' = MapDel(storage, {id})
  /\ storageKeys' = SelectSeq(storageKeys, Other)
  /\ stepStorage' = MapDel(stepStorage, ClearedKeys(id))

\* listInstanceSummaries: id and status of every entry, in insertion order
ListInstanceSummaries ==
  [n \in 1..Len(storageKeys) |-> [id |-> storageKeys[n], status |-> storage[storageKeys[n]].status]]

\* loadPendingEvent: the entry is deleted when its payload is not undefined
TakePendingEvent(id, type) ==
  pendingEvents' = IF IsSome(LoadPendingEvent(id, type))
                   THEN MapDel(pendingEvents, {Key(id, type)})
                   ELSE pendingEvents

Called(op, id, arg, ret) ==
  calls' = [calls EXCEPT ![1].last = Some([op |-> op, id |-> id, arg |-> arg, ret |-> ret])]
\* the last call made on the storage was op on instance id
Last(op, id) == IsSome(calls[1].last) /\ Val(calls[1].last).op = op /\ Val(calls[1].last).id = id
StorageFrame == UNCHANGED << wf, mgrStorage, running, eventListeners, runners, call, rec,
                             untilTarget, bodyRuns, ops, sends, queue, gen >>

StorageSave(id, status) ==
  /\ SaveInstance(id, Record(id, status, TRUE))
  /\ Called("saveInstance", id, status, None)
  /\ UNCHANGED << stepStorage, pendingEvents >>
  /\ StorageFrame

StorageUpdate(id, status) ==
  /\ IF id \in DOMAIN storage
     THEN UpdateInstance(id, [status |-> status])
     ELSE UNCHANGED << storage, storageKeys >>
  /\ Called("updateInstance", id, status, None)
  /\ UNCHANGED << stepStorage, pendingEvents >>
  /\ StorageFrame

StorageDelete(id) ==
  /\ DeleteInstance(id)
  /\ Called("deleteInstance", id, "", None)
  /\ UNCHANGED pendingEvents
  /\ StorageFrame

StorageUpdateStep(id, name, st) ==
  /\ IF id \in DOMAIN storage
     THEN UpdateStepState(id, name, st)
     ELSE UNCHANGED stepStorage
  /\ Called("updateStepState", id, name, None)
  /\ UNCHANGED << storage, storageKeys, pendingEvents >>
  /\ StorageFrame

StorageClear(id) ==
  /\ ClearAllStepStates(id)
  /\ Called("clearAllStepStates", id, "", None)
  /\ UNCHANGED << storage, storageKeys, pendingEvents >>
  /\ StorageFrame

StorageSavePending(id, type, payload) ==
  /\ SavePendingEvent(id, type, payload)
  /\ Called("savePendingEvent", id, type,
            [payload |-> payload, empty |-> Key(id, type) \notin DOMAIN pendingEvents])
  /\ UNCHANGED << storage, storageKeys, stepStorage >>
  /\ StorageFrame

StorageLoadPending(id, type) ==
  /\ TakePendingEvent(id, type)
  /\ Called("loadPendingEvent", id, type, LoadPendingEvent(id, type))
  /\ UNCHANGED << storage, storageKeys, stepStorage >>
  /\ StorageFrame

InitStorage == Init /\ wf = "SimpleWorkflow"

NextStorage ==
  \/ \E status \in Statuses : StorageSave("a", status)
  \/ \E status \in {"running", "complete"} : StorageSave("a:b", status)
  \/ \E id \in StorageIds, status \in {"paused", "terminated"} : StorageUpdate(id, status)
  \/ \E id \in StorageIds : StorageDelete(id)
  \/ \E id \in StorageIds, name \in StepNames, st \in StepStates : StorageUpdateStep(id, name, st)
  \/ \E id \in StorageIds : StorageClear(id)
  \/ \E payload \in PendingPayloads : StorageSavePending("a", EventType, payload)
  \/ StorageSavePending("a:b", EventType, Some("event-data"))
  \/ \E id \in StorageIds : StorageLoadPending(id, EventType)

SpecStorage == InitStorage /\ [][NextStorage]_vars

\* Durations: parseDuration called on strings made of a lead, a number, a
\* gap, a unit, a plural ending and a trail, and on the strings of the
\* repository's tests.
Leads == {"", " ", "\t ", "in ", "1.", "-"}
Numbers == {"", "0", "2", "12", "007"}
Gaps == {"", " ", "  "}
UnitWords == {"second", "minute", "hour", "day", "week", "Hour", ""}
Plurals == {"", "s"}
Trails == {"", " ", " ago", "s", "2"}
Durations ==
  { l \o n \o g \o u \o p \o t :
      l \in Leads, n \in Numbers, g \in Gaps, u \in UnitWords, p \in Plurals, t \in Trails }
    \cup {"invalid", "1 unknown"}

InitDuration ==
  /\ wf = "SimpleWorkflow"
  /\ storage = EmptyMap
  /\ storageKeys = <<>>
  /\ stepStorage = EmptyMap
  /\ pendingEvents = EmptyMap
  /\ mgrStorage = [m \in Mgrs |-> "memory"]
  /\ running = [m \in Mgrs |-> [id \in InstanceIds |-> 0]]
  /\ eventListeners = [m \in Mgrs |-> {}]
  /\ runners = <<>>
  /\ call = None
  /\ rec = None
  /\ untilTarget = UntilMs
  /\ bodyRuns = EmptyMap
  /\ \E duration \in Durations :
       calls = [m \in Mgrs |-> [shut |-> FALSE, hung |-> {}, passed |-> {}, issued |-> {},
                                 seen |-> EmptyMap, spawned |-> {}, recovered |-> FALSE,
                                 got |-> <<>>, batches |-> <<>>,
                                 last |-> IF m = 1
                                          THEN Some([op |-> "input", id |-> "", arg |-> duration,
                                                     ret |-> None])
                                          ELSE None]]
  /\ ops = 0
  /\ sends = <<>>
  /\ queue = <<>>
  /\ gen = 0

CallParseDuration ==
  /\ Last("input", "")
  /\ Called("parseDuration", "", Val(calls[1].last).arg, parseDuration(Val(calls[1].last).arg))
  /\ UNCHANGED << storage, storageKeys, stepStorage, pendingEvents >>
  /\ StorageFrame

NextDuration == CallParseDuration

SpecDuration == InitDuration /\ [][NextDuration]_vars

\* Validation: the workflows whose only step call is a sleep or sleepUntil
\* with a duration or a target that is to be rejected
InvalidWorkflows == {"InvalidDurationWorkflow", "PastTimestampWorkflow",
                     "ZeroDurationWorkflow", "NegativeDurationWorkflow",
                     "ZeroSecondsWorkflow", "SignedDurationWorkflow"}

InitValidation == Init /\ wf \in InvalidWorkflows

NextValidation ==
  \/ \E r \in Runners : Enter(r)
  \/ \E r \in Runners : StepReturn(r)
  \/ \E r \in Runners : RunReturns(r)
  \/ \E r \in Runners : RunThrows(r)
  \/ \E r \in Runners : RunFinally(r)
  \/ \E r \in Runners : SleepLoaded(r)
  \/ \E r \in Runners : SleepWriteSleeping(r)
  \/ \E r \in Runners : SleepRemaining(r)
  \/ \E r \in Runners : SleepTimer(r)
  \/ \E r \in Runners : SleepWriteCompleted(r)
  \/ \E id \in {"a"} \ DOMAIN storage, v \in ParamValues : CreateInstance(1, id, v)
  \/ Status(1, "a")
  \/ CallSpawn
  \/ Tick

SpecValidation == InitValidation /\ [][NextValidation]_vars

\* Failure replay: the instance of a workflow whose step fails (the body
\* throws a NonRetryableError, the event never comes) is paused and resumed
\* at any moment, so that run() is replayed over the failed checkpoint
FailingWorkflows == {"NonRetryWorkflow", "SingleEvent"}

InitFailed == Init /\ wf \in FailingWorkflows

NextFailed ==
  \/ \E r \in Runners : Enter(r)
  \/ \E r \in Runners : RunThrows(r)
  \/ \E r \in Runners : RunFinally(r)
  \/ \E r \in Runners : DoLoaded(r)
  \/ \E r \in Runners : DoWriteRunning(r)
  \/ \E r \in Runners : DoCheck(r)
  \/ \E r \in Runners : DoInvoke(r)
  \/ \E r \in Runners : DoBodyThrows(r)
  \/ \E r \in Runners : DoWriteFailed(r)
  \/ \E r \in Runners : DoCheckSettle(r)
  \/ \E r \in Runners : WaitLoaded(r)
  \/ \E r \in Runners : WaitWriteWaiting(r)
  \/ \E r \in Runners : WaitCheck(r)
  \/ \E r \in Runners : WaitRegister(r)
  \/ \E r \in Runners : WaitTimeout(r)
  \/ \E r \in Runners : WaitWriteFailed(r)
  \/ "a" \notin DOMAIN storage /\ CreateInstance(1, "a", 5)
  \/ "a" \in DOMAIN storage /\ Pause(1, "a")
  \/ "a" \in DOMAIN storage /\ ResumeInstance(1, "a")
  \/ CallUpdate
  \/ CallSpawn
  \/ Tick

SpecFailed == InitFailed /\ [][NextFailed]_vars

\* Success: a manager runs a workflow whose only step returns a value, or
\* returns nothing, and the instance is paused and resumed at any moment
ReturningWorkflows == {"SimpleWorkflow", "VoidWorkflow"}

InitSuccess == Init /\ wf \in ReturningWorkflows

NextSuccess ==
  \/ \E r \in Runners : Enter(r)
  \/ \E r \in Runners : StepReturn(r)
  \/ \E r \in Runners : RunReturns(r)
  \/ \E r \in Runners : RunThrows(r)
  \/ \E r \in Runners : RunFinally(r)
  \/ \E r \in Runners : DoLoaded(r)
  \/ \E r \in Runners : DoWriteRunning(r)
  \/ \E r \in Runners : DoCheck(r)
  \/ \E r \in Runners : DoInvoke(r)
  \/ \E r \in Runners : DoBodyReturns(r)
  \/ \E r \in Runners : DoWriteCompleted(r)
  \/ \E r \in Runners : DoCheckSettle(r)
  \/ \E v \in ParamValues : "a" \notin DOMAIN storage /\ CreateInstance(1, "a", v)
  \/ "a" \in DOMAIN storage /\ Pause(1, "a")
  \/ "a" \in DOMAIN storage /\ ResumeInstance(1, "a")
  \/ CallUpdate
  \/ CallSpawn

SpecSuccess == InitSuccess /\ [][NextSuccess]_vars

\* Nesting: a manager runs the workflow whose step body waits for an
\* event, which never comes
InitNested == Init /\ wf = "NestedWaitWorkflow"

NextNested ==
  \/ \E r \in Runners : Enter(r)
  \/ \E r \in Runners : RunThrows(r)
  \/ \E r \in Runners : RunFinally(r)
  \/ \E r \in Runners : DoLoaded(r)
  \/ \E r \in Runners : DoWriteRunning(r)
  \/ \E r \in Runners : DoCheck(r)
  \/ \E r \in Runners : DoInvoke(r)
  \/ \E r \in Runners : BodySettles(r)
  \/ \E r \in Runners : DoWriteFailed(r)
  \/ \E r \in Runners : DoCheckSettle(r)
  \/ \E r \in Runners : DoWriteRetrying(r)
  \/ \E r \in Runners : DoCheckDelay(r)
  \/ \E r \in Runners : DoDelayOver(r)
  \/ \E r \in Runners : WaitLoaded(r)
  \/ \E r \in Runners : WaitWriteWaiting(r)
  \/ \E r \in Runners : WaitCheck(r)
  \/ \E r \in Runners : WaitRegister(r)
  \/ \E r \in Runners : WaitTimeout(r)
  \/ \E r \in Runners : WaitWriteFailed(r)
  \/ \E id \in {"a"} \ DOMAIN storage, v \in ParamValues : CreateInstance(1, id, v)
  \/ Status(1, "a")
  \/ CallSpawn
  \/ Tick

SpecNested == InitNested /\ [][NextNested]_vars

SpecResume == InitResume /\ [][NextResume]_vars

\* The event loop runs every queued continuation and every due timer,
\* the clock advances, and the step bodies of the workflow return.
FairResume ==
  /\ SpecResume
  /\ WF_vars(\E r \in Runners : Enter(r))
  /\ WF_vars(\E r \in Runners : StepReturn(r))
  /\ WF_vars(\E r \in Runners : RunReturns(r))
  /\ WF_vars(\E r \in Runners : RunFinally(r))
  /\ WF_vars(\E r \in Runners : DoLoaded(r))
  /\ WF_vars(\E r \in Runners : DoWriteRunning(r))
  /\ WF_vars(\E r \in Runners : DoCheck(r))
  /\ WF_vars(\E r \in Runners : DoInvoke(r))
  /\ WF_vars(\E r \in Runners : DoBodyReturns(r))
  /\ WF_vars(\E r \in Runners : DoWriteCompleted(r))
  /\ WF_vars(\E r \in Runners : DoCheckSettle(r))
  /\ WF_vars(\E r \in Runners : SleepLoaded(r))
  /\ WF_vars(\E r \in Runners : SleepWriteSleeping(r))
  /\ WF_vars(\E r \in Runners : SleepRemaining(r))
  /\ WF_vars(\E r \in Runners : SleepTimer(r))
  /\ WF_vars(\E r \in Runners : SleepWriteCompleted(r))
  /\ WF_vars(CallUpdate)
  /\ WF_vars(CallSpawn)
  /\ WF_vars(RecLoad)
  /\ WF_vars(RecResume)
  /\ WF_vars(RecUpdate)
  /\ WF_vars(RecSpawn)
  /\ WF_vars(RecWait)
  /\ WF_vars(Tick)


\* the sendEvent calls made while no waitForEvent of the type was waiting
EarlySends == {i \in 1..Len(sends) : ~sends[i].waiting}
LateSends == {i \in 1..Len(sends) : sends[i].waiting}
FirstEarly(id, type) ==
  CHOOSE i \in EarlySends :
    /\ sends[i].id = id /\ sends[i].type = type
    /\ \A j \in EarlySends : sends[j].id = id /\ sends[j].type = type => i <= j
WaitState(id) == LoadStepState(id, "wait-event")
WaitCompletedWith(id, p) ==
  /\ IsSome(WaitState(id))
  /\ Val(WaitState(id)).status = "completed"
  /\ Val(WaitState(id)).result = Some(p)

\* C2: an event sent while no waitForEvent of its type is waiting is not
\* lost: it is kept as a pending event of (instance, type) until the next
\* waitForEvent of that type has returned its payload.
C2_EarlyEventKept ==
  \A i \in EarlySends :
    \/ Key(sends[i].id, sends[i].type) \in DOMAIN pendingEvents
    \/ \E j \in EarlySends : WaitCompletedWith(sends[i].id, sends[j].payload)

\* C3: when several events of one type are sent to an instance before any
\* is consumed, the first payload is the one that is kept as the pending
\* event, and the one the waiter gets; later sends do not replace it.
C3_FirstSendWins ==
  \A i, j \in EarlySends :
    (i < j /\ sends[i].id = sends[j].id /\ sends[i].type = sends[j].type) =>
      LET id == sends[i].id
          k == Key(id, sends[i].type)
          first == sends[FirstEarly(id, sends[i].type)].payload IN
      IF k \in DOMAIN pendingEvents
      THEN pendingEvents[k] = first
      ELSE WaitCompletedWith(id, first)

\* C4: an event sent while a waitForEvent of its type is waiting resolves
\* that waiter: its listener is removed, its checkpoint does not become
\* failed, and no pending event is stored for (instance, type).
C4_SendResolvesWaiter ==
  \A i \in LateSends :
    /\ ~HasWaiter(sends[i].id, sends[i].type)
    /\ Key(sends[i].id, sends[i].type) \notin DOMAIN pendingEvents
    /\ ~(IsSome(WaitState(sends[i].id)) /\ Val(WaitState(sends[i].id)).status = "failed")


\* ---------------------------------------------------------- life cycle
Completed(k) == k \in DOMAIN stepStorage /\ stepStorage[k].status = "completed"
StepKey(r) == Key(runners[r].id, CurStep(r).name)
Calling(r) == runners[r].pc = "enter" /\ runners[r].ip <= Len(Prog(wf))
Loaded(r) == runners[r].pc \in {"do_loaded", "sl_loaded", "we_loaded"}

\* C1: once the checkpoint of a step is completed, a later call of that
\* step finds the checkpoint and returns its result without invoking the
\* step body, for as long as the checkpoint is not removed.
C1_IdempotentReplay ==
  [][ /\ \A r \in Runners :
           (Calling(r) /\ Completed(StepKey(r)) /\ runners'[r].pc # runners[r].pc) =>
             /\ Loaded(r)'
             /\ runners'[r].ex = Some(stepStorage[StepKey(r)])
      /\ \A r \in Runners :
           (/\ Loaded(r)
            /\ IsSome(runners[r].ex)
            /\ Val(runners[r].ex).status = "completed"
            /\ runners'[r].pc # runners[r].pc) =>
             \/ runners'[r].pc = DISABLED_PROMISE
             \/ runners'[r].pc = "ret" /\ runners'[r].result = Val(runners[r].ex).result
    ]_vars

Status_(id) == storage[id].status
NoCall == call = None /\ rec = None

\* C5: once pause() has set the status to paused, the status stays paused
\* until resume() or restart() is called: no run overwrites it.
C5_PausedStaysPaused ==
  [][ \A id \in DOMAIN storage :
        (Status_(id) = "paused" /\ NoCall /\ NoCall') => storage'[id].status = "paused"
    ]_vars

Restarting == IsSome(call) /\ Val(call).op = "restart" /\ Val(call).pc = "spawn"

\* C10: when restart() starts the new run, the instance has no checkpoint;
\* and the new run never finds a checkpoint that a run started before the
\* restart has written, so that it executes every step body itself.
C10_RestartIsFresh ==
  /\ Restarting => ClearedKeys(Val(call).id) = {}
  /\ \A r \in Runners :
       IsSome(runners[r].ex) => Val(runners[r].ex).gen >= runners[r].gen


ShutDown(r) == calls[runners[r].mgr].shut
Moved(r) == runners'[r].pc # runners[r].pc

\* C7: once shutdown() was called on a manager, none of its runs invokes a
\* step body, and no step call of its runs returns or throws into run().
C7_NoUserCodeAfterShutdown ==
  [][ \A r \in Runners :
        ShutDown(r) =>
          /\ ~(Moved(r) /\ runners'[r].pc = "do_body")
          /\ ~(Moved(r) /\ runners[r].pc \in {"ret", "thr"}) ]_vars


\* ------------------------------------------------------- continuation
StepDone(id, name) ==
  /\ IsSome(LoadStepState(id, name))
  /\ Val(LoadStepState(id, name)).status = "completed"
Finished(id, out) ==
  /\ id \in DOMAIN storage
  /\ storage[id].status = "complete"
  /\ storage[id].output = Some(out)
  /\ \A i \in 1..Len(Prog(wf)) : StepDone(id, Prog(wf)[i].name)

\* C8: an instance that was interrupted while it slept between its two
\* work steps, and was then continued by resume() or by recover() on a
\* second manager, ends up, and stays, complete with output 20 (for
\* value 5) and with every step checkpointed completed.
C8_InterruptedWorkCompletes ==
  [](Interrupted /\ Continued => <>[]Finished("a", 20))

C8_Witness ==
  /\ calls[1].shut
  /\ "recover" \in calls[2].issued
  /\ Len(runners) = 2
  /\ runners[1].pc = DISABLED_PROMISE
  /\ runners[2].pc = "done"
  /\ Finished("a", 20)


\* ------------------------------------------------------------ recovery
Recoverable == {"paused", "queued", "running", "waiting", "waitingForPause"}
Active(st) == st.status # "complete" /\ st.status # "terminated"
Seen(m) == calls[m].seen
Untouched(m, id) == id \notin calls[m].spawned /\ storage[id] = Seen(m)[id]

Runs(k) == IF k \in DOMAIN bodyRuns THEN bodyRuns[k] ELSE 0
\* the limit the workflow passes in config.retries, 0 when it passes none
ConfigLimit(st) == IF "limit" \in DOMAIN st THEN st.limit ELSE 0
\* the checkpoint with key k has status s
Checkpoint(k, s) == k \in DOMAIN stepStorage /\ stepStorage[k].status = s
\* run r is at, or past, the end of its i-th step call
At(r, i, pcs) == runners[r].ip = i /\ runners[r].pc \in pcs
Past(r, i) == At(r, i, {"ret", "thr"}) \/ runners[r].ip > i

\* C11: a do() with retries.limit = L (0 without config) that is not
\* interrupted invokes its body at most L+1 times; it pauses for another
\* attempt only while the failed attempts are at most L; it returns only
\* with the checkpoint completed holding the value of the attempt that
\* succeeded; a retryable error fails the step only as the (L+1)-th
\* failure, and do() raises only with the checkpoint failed; without
\* config the body has been attempted exactly once when do() is over.
C11_RetryLimit ==
  \A r \in Runners : \A i \in 1..Len(Prog(wf)) :
    LET me == runners[r]
        st == Prog(wf)[i]
        k == Key(me.id, st.name)
        L == ConfigLimit(st) IN
    st.op = "do" =>
      /\ Runs(k) <= L + 1
      /\ Checkpoint(k, "retrying") =>
           stepStorage[k].retries <= L /\ stepStorage[k].retries = Runs(k)
      /\ Checkpoint(k, "completed") =>
           stepStorage[k].result = Some(BodyValue(st.name, me.payload, <<>>))
      /\ At(r, i, {"ret"}) => Checkpoint(k, "completed") /\ stepStorage[k].result = me.result
      /\ At(r, i, {"thr"}) => Checkpoint(k, "failed")
      /\ (Checkpoint(k, "failed") /\ \A e \in BodyThrows(st.name) : e.kind # "NonRetryableError") =>
           stepStorage[k].retries = L + 1 /\ Runs(k) = L + 1
      /\ ("limit" \notin DOMAIN st /\ Past(r, i)) => Runs(k) = 1

\* the body failed three times with limit 2, and the step has failed
C11_Witness ==
  /\ wf = "RetryWorkflow"
  /\ Checkpoint(Key("a", "retry-step"), "failed")
  /\ Runs(Key("a", "retry-step")) = 3


\* C12: a body that throws NonRetryableError is not retried, whatever the
\* limit: the body runs once, no retrying checkpoint is written, the
\* checkpoint failed holds the original message and retries 1, do() raises
\* that message, and the instance ends errored with it.
C12_NonRetryable ==
  \A r \in Runners : \A i \in 1..Len(Prog(wf)) :
    LET me == runners[r]
        st == Prog(wf)[i]
        k == Key(me.id, st.name) IN
    (st.op = "do" /\ BodyThrows(st.name) = {NonRetryableError("Non-retryable error")}) =>
      /\ Runs(k) <= 1
      /\ ~Checkpoint(k, "retrying")
      /\ Checkpoint(k, "failed") =>
           stepStorage[k].error = "Non-retryable error" /\ stepStorage[k].retries = 1
      /\ At(r, i, {"thr"}) => me.err = "Non-retryable error" /\ Checkpoint(k, "failed")
      /\ me.pc = "done" =>
           /\ storage[me.id].status = "errored"
           /\ storage[me.id].error = Some("Non-retryable error")

\* the NonRetryableError of a step with limit 2 has ended the instance
C12_Witness ==
  /\ wf = "NonRetryWorkflow"
  /\ ConfigLimit(Prog(wf)[1]) = 2
  /\ Runs(Key("a", "non-retry-step")) = 1
  /\ "a" \in DOMAIN storage
  /\ storage["a"].status = "errored"


\* the pause the workflow asks for after the k-th failed attempt
RECURSIVE Pow2(_)
Pow2(n) == IF n <= 0 THEN 1 ELSE 2 * Pow2(n - 1)
Backoff(st, k) ==
  IF "backoff" \in DOMAIN st /\ st.backoff = "exponential"
  THEN st.delay * Pow2(k - 1)
  ELSE st.delay

\* C13: after the k-th failed attempt of a do() with retries.delay = d the
\* retrying checkpoint records retryEndTime = now + d for constant (the
\* default) backoff and now + d * 2^(k-1) for exponential backoff, and the
\* pause before the next attempt lasts until then.
C13_BackoffDelays ==
  \A r \in Runners : \A i \in 1..Len(Prog(wf)) :
    LET me == runners[r]
        st == Prog(wf)[i]
        k == Key(me.id, st.name) IN
    (st.op = "do" /\ "delay" \in DOMAIN st) =>
      /\ At(r, i, {"do_c_delay"}) =>
           /\ Checkpoint(k, "retrying")
           /\ stepStorage[k].retryEndTime = Backoff(st, stepStorage[k].retries)
      /\ At(r, i, {"do_delay"}) =>
           /\ Checkpoint(k, "retrying")
           /\ me.wake = stepStorage[k].retryEndTime


\* ------------------------------------------------ timeout and outcomes
\* C14: a waitForEvent whose timeout passes without the event fails: the
\* checkpoint becomes failed{error: "Timeout"}, the call raises Timeout
\* into run(), and, run() not catching it, the instance ends errored with
\* an error that contains "Timeout".
C14_WaitTimeout ==
  \A r \in Runners : \A i \in 1..Len(Prog(wf)) :
    LET me == runners[r]
        st == Prog(wf)[i]
        k == Key(me.id, st.name) IN
    st.op = "waitForEvent" =>
      /\ Checkpoint(k, "failed") => stepStorage[k].error = "Timeout"
      /\ At(r, i, {"do_c_thr", "thr"}) => me.err = "Timeout" /\ Checkpoint(k, "failed")
      /\ At(r, i, {"finally"}) \/ me.pc = "done" =>
           /\ Checkpoint(k, "failed")
           /\ storage[me.id].status = "errored"
           /\ storage[me.id].error = Some("Timeout")

\* no event was sent, the timeout has passed and the run is over
C14_Witness ==
  /\ wf = "SingleEvent"
  /\ sends = <<>>
  /\ Checkpoint(Key("a", "wait-event"), "failed")
  /\ \E r \in Runners : runners[r].pc = "done"
  /\ storage["a"].status = "errored"


\* run r ends in this step: the continuation after `await workflow.run`
\* or the catch block has written the record
Ends(r, pcs) ==
  /\ r \in Runners
  /\ runners[r].pc \in pcs
  /\ runners'[r].pc = "finally"
\* the value run() returns
Returned(me) == IF Len(me.env) > 0 THEN me.env[Len(me.env)] ELSE None

\* C15: when run() returns v the runner writes status complete with
\* output v, and when run() throws it writes status errored with the
\* message of the error; it never writes complete after a throw nor
\* errored after a normal return.
C15_RunnerOutcome ==
  [][\A r \in Runners :
       /\ Ends(r, {"enter"}) =>
            /\ storage'[runners[r].id].status = "complete"
            /\ storage'[runners[r].id].output = Returned(runners[r])
            /\ storage'[runners[r].id].error = storage[runners[r].id].error
       /\ Ends(r, {"thr"}) =>
            /\ storage'[runners[r].id].status = "errored"
            /\ storage'[runners[r].id].error = Some(runners[r].err)
            /\ storage'[runners[r].id].output = storage[runners[r].id].output]_vars

\* one run has returned a value and another run has thrown
C15_Witness ==
  /\ \E r \in Runners : runners[r].pc = "finally" /\ storage[runners[r].id].status = "complete"
                         /\ IsSome(storage[runners[r].id].output)
  /\ "a" \in DOMAIN storage /\ IsSome(storage["a"].error)


\* the string form of what the body of error-step may throw
StringForms == {"Test error", "string error", "42"}

\* C16: a do() that fails for good raises an Error whose message is the
\* string form of whatever the body threw, an Error or not; run() may
\* catch it and go on, and when run() then returns normally the instance
\* ends complete.
C16_ErrorsCatchable ==
  \A r \in Runners : \A i \in 1..Len(Prog(wf)) :
    LET me == runners[r]
        st == Prog(wf)[i]
        k == Key(me.id, st.name) IN
    (st.op = "do" /\ "catch" \in DOMAIN st) =>
      /\ At(r, i, {"thr"}) =>
           /\ me.err \in StringForms
           /\ Checkpoint(k, "failed")
           /\ stepStorage[k].error = me.err
      /\ (me.ip > i /\ me.pc \in {"enter", "finally", "done"}) =>
           /\ Checkpoint(k, "failed")
           /\ Returned(me) = Some("caught: " \o stepStorage[k].error) \/ me.pc = "done"
      /\ me.pc = "done" =>
           /\ storage[me.id].status = "complete"
           /\ storage[me.id].output = Some("caught: " \o stepStorage[k].error)
           /\ storage[me.id].error = None

\* the body threw the number 42, run() caught the Error and returned
C16_Witness ==
  /\ wf = "ErrorHandlingWorkflow"
  /\ "a" \in DOMAIN storage
  /\ storage["a"].status = "complete"
  /\ storage["a"].output = Some("caught: 42")


\* ----------------------------------------------------- manager and handle
\* this step is a create call that has passed saveInstance / has returned
\* its handle, or a get call that was answered
Creates == call = None /\ IsSome(call') /\ Val(call').op = "create"
CreateReturns == IsSome(call) /\ Val(call).op = "create" /\ call' = None
Gets(m) == Len(calls'[m].got) = Len(calls[m].got) + 1
Answer(m) == calls'[m].got[Len(calls'[m].got)]
\* the storage holds a record with an event for id
Kept(store, id) == id \in DOMAIN store /\ IsSome(store[id].event)

\* C17: create({id, params}) persists a record with status queued and the
\* event {payload: params, instanceId: id} before it returns, so the record
\* is there for a get(id) when it returns; get(id) yields a handle with
\* that id when a record with an event exists and fails otherwise, and a
\* get changes no record, checkpoint or run.
C17_CreateAndGet ==
  [][/\ Creates =>
          /\ Val(call').id \in DOMAIN storage'
          /\ storage'[Val(call').id] =
               [status |-> "queued", output |-> None, error |-> None,
                event |-> Some([payload |-> Val(call').payload, instanceId |-> Val(call').id])]
     /\ CreateReturns => Kept(storage', Val(call).id)
     /\ \A m \in Mgrs : Gets(m) =>
          /\ Answer(m).found <=> Kept(storage, Answer(m).id)
          /\ UNCHANGED << storage, storageKeys, stepStorage, runners, running, call >>
    ]_vars

\* get("a") has returned a handle after create, and get("b") has failed
\* on a record without event
C17_Witness ==
  /\ \E n \in 1..Len(calls[1].got) : calls[1].got[n] = [id |-> "a", found |-> TRUE]
  /\ \E n \in 1..Len(calls[1].got) : calls[1].got[n] = [id |-> "b", found |-> FALSE]
  /\ "b" \in DOMAIN storage
  /\ \E r \in Runners : runners[r].id = "a"


\* this step is the resume call's updateInstance / startInstance
ResumeWrites == IsSome(call) /\ Val(call).op = "resume" /\ Val(call).pc = "update" /\ call' # call
ResumeSpawns == IsSome(call) /\ Val(call).op = "resume" /\ Val(call).pc = "spawn" /\ call' = None

\* C19: resume() acts only on a paused instance: then it writes status
\* running and starts a fresh run from the stored event; on an instance of
\* any other status it writes no status, changes no checkpoint and starts
\* no run.
C19_ResumeOnlyPaused ==
  [][/\ \A id \in InstanceIds : ResumeInstance(1, id) =>
          IF Kept(storage, id) /\ storage[id].status = "paused"
          THEN /\ IsSome(call')
               /\ Val(call').op = "resume"
               /\ Val(call').payload = Val(storage[id].event).payload
          ELSE UNCHANGED << storage, storageKeys, stepStorage, runners, running, call, queue >>
     /\ ResumeWrites => storage'[Val(call).id].status = "running"
     /\ ResumeSpawns =>
          /\ Len(runners') = Len(runners) + 1
          /\ runners'[Len(runners')].id = Val(call).id
          /\ runners'[Len(runners')].payload = Val(call).payload
          /\ runners'[Len(runners')].ip = 1
          /\ storage'[Val(call).id].status = "running"
    ]_vars

\* resume() was called on a terminated instance, and nothing runs
C19_Witness ==
  /\ "resume" \in calls[1].issued
  /\ Kept(storage, "b")
  /\ storage["b"].status = "terminated"
  /\ \A r \in Runners : runners[r].id # "b"


\* C20: terminate() is final: once the status is terminated, no later
\* action of a run changes it; only restart() takes an instance out of
\* terminated.
C20_TerminatedIsFinal ==
  [][ \A id \in DOMAIN storage :
        (Status_(id) = "terminated" /\ NoCall /\ NoCall') => storage'[id].status = "terminated"
    ]_vars


\* the instance id has been created and started
Started(id) == Kept(storage, id) /\ \E r \in Runners : runners[r].id = id
\* the createBatch calls that have settled
Settled_ == { calls[1].batches[n] : n \in 1..Len(calls[1].batches) }
\* the i-th handle belongs to the i-th entry
InOrder(b) == IsSome(b.handles) => Val(b.handles) = b.ids

\* C18 (as claimed): createBatch returns its handles in the order of the
\* input list, and when creating one entry fails every other entry is
\* still created, started and returned to the caller.
C18_BatchKeepsSiblings ==
  \A b \in Settled_ :
    /\ InOrder(b)
    /\ \A n \in 1..Len(b.ids) : ~b.fails[n] =>
         /\ Started(b.ids[n])
         /\ IsSome(b.handles)
         /\ \E h \in 1..Len(Val(b.handles)) : Val(b.handles)[h] = b.ids[n]

\* C18 (amended): createBatch returns its handles in the order of the
\* input list when every entry is created; when creating one entry fails,
\* every other entry is still created and started, but the call as a whole
\* fails and returns no handle.
C18_BatchAllOrNothing ==
  \A b \in Settled_ :
    /\ InOrder(b)
    /\ \A n \in 1..Len(b.ids) : ~b.fails[n] => Started(b.ids[n])
    /\ (\A n \in 1..Len(b.ids) : ~b.fails[n]) => IsSome(b.handles)
    /\ (\E n \in 1..Len(b.ids) : b.fails[n]) => b.handles = None

\* a createBatch of "b" and "a" whose first entry failed has settled, and
\* the sibling "a" runs
C18_Witness ==
  \E b \in Settled_ :
    /\ b.ids = <<"b", "a">>
    /\ b.fails[1] /\ ~b.fails[2]
    /\ Started("a")
    /\ "b" \notin DOMAIN storage


\* ---------------------------------------------------------- storage claims
Listed == { ListActiveInstances[n] : n \in 1..Len(ListActiveInstances) }

\* C21: after any sequence of saveInstance, updateInstance and
\* deleteInstance calls, listActiveInstances() returns exactly the ids of
\* the stored instances whose status is neither complete nor terminated,
\* each once, and no deleted id.
C21_ActiveList ==
  /\ Listed = { id \in DOMAIN storage : storage[id].status \notin {"complete", "terminated"} }
  /\ Len(ListActiveInstances) = Cardinality(Listed)
  /\ \A id \in StorageIds : Last("deleteInstance", id) => id \notin Listed

\* "a:b" was deleted, and the errored instance "a" is the one listed
C21_Witness ==
  /\ Last("deleteInstance", "a:b")
  /\ "a" \in DOMAIN storage
  /\ storage["a"].status = "errored"
  /\ ListActiveInstances = <<"a">>


Ret == Val(calls[1].last).ret

\* C22: a pending event is consumed exactly once: after savePendingEvent
\* on an empty key the next loadPendingEvent returns the payload saved,
\* whatever it is (a value, null, undefined), and after a loadPendingEvent
\* the entry is gone, so that the next load returns null and a new save is
\* accepted.
C22_PendingOnce ==
  \A id \in StorageIds :
    /\ (Last("savePendingEvent", id) /\ Ret.empty) =>
         LoadPendingEvent(id, EventType) = Some(Ret.payload)
    /\ Last("loadPendingEvent", id) =>
         /\ Key(id, EventType) \notin DOMAIN pendingEvents
         /\ LoadPendingEvent(id, EventType) = None


\* C23: deleteInstance(id) removes everything of the instance: afterwards
\* loadInstance(id) is null, loadStepState(id, name) is null for every
\* step name, loadPendingEvent(id, type) is null for every event type, and
\* id is neither in listInstanceSummaries() nor in listActiveInstances().
C23_DeleteRemovesAll ==
  \A id \in StorageIds : Last("deleteInstance", id) =>
    /\ LoadInstance(id) = None
    /\ \A name \in StepNames : LoadStepState(id, name) = None
    /\ LoadPendingEvent(id, EventType) = None
    /\ \A n \in 1..Len(ListInstanceSummaries) : ListInstanceSummaries[n].id # id
    /\ id \notin Listed


\* C24: clearAllStepStates(id) removes exactly the step checkpoints of
\* instance id: afterwards loadStepState(id, name) is null for every name,
\* while the record of id and the records, checkpoints and pending events
\* of every other instance, also of one whose id starts with id and ':',
\* are unchanged.
C24_ClearOnlyOwnSteps ==
  [][\A id \in StorageIds : StorageClear(id) =>
       /\ \A name \in StepNames : Key(id, name) \notin DOMAIN stepStorage'
       /\ \A other \in StorageIds \ {id} : \A name \in StepNames :
            Key(other, name) \in DOMAIN stepStorage =>
              /\ Key(other, name) \in DOMAIN stepStorage'
              /\ stepStorage'[Key(other, name)] = stepStorage[Key(other, name)]
       /\ UNCHANGED << storage, storageKeys, pendingEvents >>
    ]_vars


\* --------------------------------------------------------- duration claims
\* the strings '<n> <unit>' and '<n> <unit>s' with optional blanks around
\* and between, and the number of milliseconds each stands for
Multiplier == [second |-> 1000, minute |-> 60000, hour |-> 3600000, day |-> 86400000]
WellFormed ==
  { << l \o n \o g \o u \o p \o t, ParseInt(n) * Multiplier[u] >> :
      l \in Leads \cap {"", " ", "\t "}, n \in Numbers \ {""}, g \in Gaps,
      u \in UnitWords \cap DOMAIN Multiplier, p \in Plurals, t \in Trails \cap {"", " "} }
Arg == Val(calls[1].last).arg

\* C25: parseDuration maps a string '<n> <unit>' or '<n> <unit>s' (unit
\* second, minute, hour or day, optional blanks around) to n times 1000,
\* 60000, 3600000 or 86400000, and fails with an invalid-duration error
\* for every other string: unknown unit, missing number, extra text before
\* or after.
C25_ParseDuration ==
  Last("parseDuration", "") =>
    /\ \A w \in WellFormed : w[1] = Arg => Ret = Returns(w[2])
    /\ (\A w \in WellFormed : w[1] # Arg) => Ret = Throws("Invalid duration format: " \o Arg)


\* ------------------------------------------------------ validation claims
\* the step calls that are to be rejected: a sleep of zero or negative
\* milliseconds or of a string that is no '<n> <unit>', a sleepUntil whose
\* target is not in the future
Rejected(st) ==
  \/ st.op = "sleep" /\ "ms" \in DOMAIN st /\ st.ms <= 0
  \/ st.op = "sleep" /\ "duration" \in DOMAIN st
       /\ \A w \in WellFormed : w[1] = st.duration => w[2] <= 0
  \/ st.op = "sleepUntil" /\ TargetDelay(st, untilTarget) <= 0

\* C26: validation errors leave no trace: a sleep with a duration of zero
\* or negative milliseconds or with an unparsable duration string, and a
\* sleepUntil with a target that is not in the future, raise an error to
\* the caller without waiting and without writing a checkpoint for the step.
C26_ValidationNoTrace ==
  [][\A r \in Runners : (Enter(r) /\ Rejected(CurStep(r))) =>
       /\ runners'[r].pc = "thr"
       /\ UNCHANGED stepStorage
    ]_vars


\* ---------------------------------------------------------- replay claims
\* the checkpoint that run r found when it made its step call
Found(r, status) == IsSome(runners[r].ex) /\ Val(runners[r].ex).status = status

\* C27: a failed checkpoint is terminal: a later do() or waitForEvent()
\* with the name of a step checkpointed failed{error} raises an error
\* carrying the stored message (unless its step object was shut down, when
\* it never settles), without invoking the body, without waiting for an
\* event or a timeout, and without modifying the checkpoint.
C27_FailedIsTerminal ==
  /\ [](\A r \in Runners : Found(r, "failed") => runners[r].pc \in {"do_loaded", "we_loaded"})
  /\ [][\A r \in Runners :
          ((DoLoaded(r) \/ WaitLoaded(r)) /\ Found(r, "failed") /\ ~runners[r].sd) =>
            /\ runners'[r].pc = "thr"
            /\ runners'[r].err = Val(runners[r].ex).error
            /\ UNCHANGED << stepStorage, bodyRuns >>
      ]_vars

\* the resumed run of the instance has raised the stored error, and the
\* body has run only once, in the first run
C27_Witness ==
  /\ wf = "NonRetryWorkflow"
  /\ Len(runners) = 2
  /\ runners[1].pc = "done"
  /\ runners[2].pc = "thr"
  /\ runners[2].err = "Non-retryable error"
  /\ bodyRuns = (Key("a", "non-retry-step") :> 1)
  /\ stepStorage[Key("a", "non-retry-step")].status = "failed"


\* C28: replaying a sleep or sleepUntil step whose checkpoint is completed
\* returns normally at once, also when the sleepUntil target lies in the
\* past at the time of the replay: the replay raises no error and rewrites
\* no checkpoint.
C28_CompletedSleepReplays ==
  [][\A r \in Runners :
       /\ ( /\ Enter(r)
            /\ CurStep(r).op \in {"sleep", "sleepUntil"}
            /\ LoadStepState(runners[r].id, CurStep(r).name) # None
            /\ Val(LoadStepState(runners[r].id, CurStep(r).name)).status = "completed" ) =>
              /\ runners'[r].pc = "sl_loaded"
              /\ UNCHANGED stepStorage
       /\ (SleepLoaded(r) /\ Found(r, "completed") /\ ~runners[r].sd) =>
              /\ runners'[r].pc = "ret"
              /\ UNCHANGED stepStorage
    ]_vars


\* C29: a sleep's deadline survives restarts: when a step checkpointed
\* sleeping{sleepEndTime: E} is replayed, after pause and resume or after
\* shutdown and recover(), before it completed, the deadline E is never
\* replaced by a later one, and the replayed step waits no longer than the
\* time that remains until E. (Deadlines are kept relative to now: a later
\* deadline is a larger one.)
C29_DeadlineSurvives ==
  [][/\ \A k \in DOMAIN stepStorage \cap DOMAIN stepStorage' :
          (stepStorage[k].status = "sleeping" /\ stepStorage'[k].status = "sleeping") =>
             stepStorage'[k].sleepEndTime <= stepStorage[k].sleepEndTime
     /\ \A r \in Runners :
          SleepRemaining(r) =>
             runners'[r].wake <= stepStorage[Key(runners[r].id, CurStep(r).name)].sleepEndTime
    ]_vars


\* C30: success is always checkpointed: whenever the body of do() returns
\* normally, whatever the value, also nothing (undefined), do() raises no
\* error: it goes on to write completed{result} for the step, with the
\* value the body returned, and returns that value to run().
C30_SuccessCheckpointed ==
  [][\A r \in Runners :
       /\ (DoBodyReturns(r) /\ ~runners[r].sd) =>
            /\ runners'[r].pc = "do_w_completed"
            /\ runners'[r].result = BodyResult(CurStep(r).name, runners[r].payload, runners[r].env)
       /\ DoWriteCompleted(r) =>
            /\ stepStorage'[Key(runners[r].id, CurStep(r).name)].status = "completed"
            /\ stepStorage'[Key(runners[r].id, CurStep(r).name)].result = runners[r].result
       /\ (DoCheckSettle(r) /\ runners[r].pc = "do_c_ret" /\ ~runners[r].sd) =>
            /\ runners'[r].pc = "ret"
            /\ runners'[r].result = runners[r].result
    ]_vars


\* ----------------------------------------------------------- retry claims
\* C31: the Timeout error of waitForEvent is non-retryable: when a
\* waitForEvent called inside the body of a do() that has retries.limit >= 1
\* times out, the do() does not invoke the body again and fails on that
\* first attempt.
C31_TimeoutNotRetried ==
  /\ \A k \in DOMAIN bodyRuns : bodyRuns[k] <= 1
  /\ \A k \in DOMAIN stepStorage :
       stepStorage[k].status \in {"retrying", "failed"} /\ "retries" \in DOMAIN stepStorage[k]
         => stepStorage[k].status = "failed" /\ stepStorage[k].retries = 1


\* C32: backoff survives restarts: a do() that finds its step checkpointed
\* retrying{retryEndTime, retries} does not invoke the body before time
\* has reached retryEndTime, and it goes on counting the attempts from the
\* stored retries, so that no more than limit + 1 attempts are ever counted.
C32_BackoffSurvives ==
  /\ [](\A k \in DOMAIN stepStorage :
          "retries" \in DOMAIN stepStorage[k] =>
             \A id \in InstanceIds, i \in 1..Len(Prog(wf)) :
                k = Key(id, Prog(wf)[i].name) =>
                   stepStorage[k].retries <= ConfigLimit(Prog(wf)[i]) + 1)
  /\ [][\A r \in Runners : Found(r, "retrying") =>
          /\ DoInvoke(r) => Val(runners[r].ex).retryEndTime = 0
          /\ DoWriteRunning(r) =>
               stepStorage'[Key(runners[r].id, CurStep(r).name)].retries
                 = Val(runners[r].ex).retries
      ]_vars

\* a run that found the step retrying, one attempt counted, has invoked the
\* body for the second attempt
C32_Witness ==
  \E r \in Runners :
    /\ runners[r].pc = "do_body"
    /\ Found(r, "retrying")
    /\ Val(runners[r].ex).retries = 1
    /\ runners[r].att = 1
    /\ bodyRuns[Key(runners[r].id, CurStep(r).name)] = 2


\* C33: a retry delay given as a duration string is parsed: with
\* retries.delay = "2 seconds" the backoff pause is the parsed number of
\* milliseconds (2000), exactly as if the number had been passed.
C33_StringDelayParsed ==
  [][\A r \in Runners :
       (DoWriteRetrying(r) /\ "delayText" \in DOMAIN CurStep(r)) =>
          \A w \in WellFormed : w[1] = CurStep(r).delayText =>
             stepStorage'[Key(runners[r].id, CurStep(r).name)].retryEndTime = w[2]
    ]_vars


\* ----------------------------------------------------- concurrency claims
\* run r is under way: run() has not ended, and the run was not abandoned
\* (an abandoned run still counts while a step body of it executes)
Executing(r) ==
  /\ runners[r].pc \notin {"finally", "done", DISABLED_PROMISE}
  /\ ~runners[r].sd \/ runners[r].pc = "do_body"

\* C34: one runner per instance: within one manager two runs of the same
\* instance never overlap, after any sequence of create, pause, resume,
\* restart and recover, so that the step bodies of an instance execute
\* strictly one after the other.
C34_OneRunner ==
  \A r1, r2 \in Runners :
    ( /\ r1 # r2
      /\ runners[r1].mgr = runners[r2].mgr
      /\ runners[r1].id = runners[r2].id ) => ~(Executing(r1) /\ Executing(r2))


\* C35: recovered instances progress independently: during recover() an
\* instance that is blocked in a sleep does not delay the runners of the
\* other instances: once a recovered run waits for its sleep timer and
\* nothing else is ready to run, every recoverable instance has its runner.
C35_RecoveredIndependently ==
  \A m \in Mgrs :
    ( /\ "recover" \in calls[m].issued
      /\ Quiet
      /\ \E r \in Runners : runners[r].mgr = m /\ runners[r].pc = "sl_timer" ) =>
      \A id \in DOMAIN Seen(m) :
        (IsSome(Seen(m)[id].event) /\ Seen(m)[id].status \in Recoverable) =>
           id \in calls[m].spawned


\* C36: the stored status only moves along queued -> running ->
\* {paused, complete, errored, terminated}, paused -> running and any
\* status -> queued; pause() does not turn a complete, errored or
\* terminated instance into paused.
C36_StatusMachine ==
  [][\A id \in (DOMAIN storage) \cap (DOMAIN storage') :
       LET s == storage[id].status
           t == storage'[id].status
       IN  \/ s = t
           \/ t = "queued"
           \/ s = "queued" /\ t = "running"
           \/ s = "running" /\ t \in {"paused", "complete", "errored", "terminated"}
           \/ s = "paused" /\ t = "running"]_vars


\* C37: result fields match the status: in every stored instance record
\* output is present only while the status is complete and error is
\* present only while the status is errored, also after restart() or
\* resume() of an instance that had ended.
C37_ResultMatchesStatus ==
  \A id \in DOMAIN storage :
    /\ IsSome(storage[id].output) => storage[id].status = "complete"
    /\ IsSome(storage[id].error) => storage[id].status = "errored"


\* ------------------------------------------------------------ liveness
\* No shutdown(), pause() or terminate(): one manager runs a workflow that
\* sleeps, one that retries after a backoff pause or one that waits for an
\* event; the instance is created, restarted once and sent events at any
\* moment.
InitLive == Init /\ wf \in {"Pausable", "Retry", "SingleEvent"}

NextLive ==
  \/ \E r \in Runners : Enter(r)
  \/ \E r \in Runners : StepReturn(r)
  \/ \E r \in Runners : RunReturns(r)
  \/ \E r \in Runners : RunThrows(r)
  \/ \E r \in Runners : RunFinally(r)
  \/ \E r \in Runners : DoLoaded(r)
  \/ \E r \in Runners : DoWriteRunning(r)
  \/ \E r \in Runners : DoCheck(r)
  \/ \E r \in Runners : DoInvoke(r)
  \/ \E r \in Runners : DoBodyReturns(r)
  \/ \E r \in Runners : DoBodyThrows(r)
  \/ \E r \in Runners : DoWriteCompleted(r)
  \/ \E r \in Runners : DoWriteFailed(r)
  \/ \E r \in Runners : DoCheckSettle(r)
  \/ \E r \in Runners : DoWriteRetrying(r)
  \/ \E r \in Runners : DoCheckDelay(r)
  \/ \E r \in Runners : DoDelayOver(r)
  \/ \E r \in Runners : SleepLoaded(r)
  \/ \E r \in Runners : SleepWriteSleeping(r)
  \/ \E r \in Runners : SleepRemaining(r)
  \/ \E r \in Runners : SleepTimer(r)
  \/ \E r \in Runners : SleepWriteCompleted(r)
  \/ \E r \in Runners : WaitLoaded(r)
  \/ \E r \in Runners : WaitWriteWaiting(r)
  \/ \E r \in Runners : WaitCheck(r)
  \/ \E r \in Runners : WaitRegister(r)
  \/ \E r \in Runners : WaitTimeout(r)
  \/ \E r \in Runners : WaitWriteFailed(r)
  \/ \E id \in {"a"} \ DOMAIN storage, v \in ParamValues : CreateInstance(1, id, v)
  \/ \E id \in {"a"} \cap DOMAIN storage : Len(runners) = 1 /\ RestartInstance(1, id)
  \/ \E id \in {"a"} \cap DOMAIN storage, p \in Payloads :
       SendEvent(1, id, EventType, p)
  \/ CallUpdate
  \/ CallClear
  \/ CallSpawn
  \/ Tick

SpecLive == InitLive /\ [][NextLive]_vars

\* The event loop runs every queued continuation and every due timer,
\* the clock advances, and the step bodies of the workflow settle.
FairLive ==
  /\ SpecLive
  /\ WF_vars(\E r \in Runners : Enter(r))
  /\ WF_vars(\E r \in Runners : StepReturn(r))
  /\ WF_vars(\E r \in Runners : RunReturns(r))
  /\ WF_vars(\E r \in Runners : RunThrows(r))
  /\ WF_vars(\E r \in Runners : RunFinally(r))
  /\ WF_vars(\E r \in Runners : DoLoaded(r))
  /\ WF_vars(\E r \in Runners : DoWriteRunning(r))
  /\ WF_vars(\E r \in Runners : DoCheck(r))
  /\ WF_vars(\E r \in Runners : DoInvoke(r))
  /\ WF_vars(\E r \in Runners : DoBodyReturns(r))
  /\ WF_vars(\E r \in Runners : DoBodyThrows(r))
  /\ WF_vars(\E r \in Runners : DoWriteCompleted(r))
  /\ WF_vars(\E r \in Runners : DoWriteFailed(r))
  /\ WF_vars(\E r \in Runners : DoCheckSettle(r))
  /\ WF_vars(\E r \in Runners : DoWriteRetrying(r))
  /\ WF_vars(\E r \in Runners : DoCheckDelay(r))
  /\ WF_vars(\E r \in Runners : DoDelayOver(r))
  /\ WF_vars(\E r \in Runners : SleepLoaded(r))
  /\ WF_vars(\E r \in Runners : SleepWriteSleeping(r))
  /\ WF_vars(\E r \in Runners : SleepRemaining(r))
  /\ WF_vars(\E r \in Runners : SleepTimer(r))
  /\ WF_vars(\E r \in Runners : SleepWriteCompleted(r))
  /\ WF_vars(\E r \in Runners : WaitLoaded(r))
  /\ WF_vars(\E r \in Runners : WaitWriteWaiting(r))
  /\ WF_vars(\E r \in Runners : WaitCheck(r))
  /\ WF_vars(\E r \in Runners : WaitRegister(r))
  /\ WF_vars(\E r \in Runners : WaitTimeout(r))
  /\ WF_vars(\E r \in Runners : WaitWriteFailed(r))
  /\ WF_vars(CallUpdate)
  /\ WF_vars(CallClear)
  /\ WF_vars(CallSpawn)
  /\ WF_vars(Tick)

Ended(id) == id \in DOMAIN storage /\ storage[id].status \in {"complete", "errored"}

\* C38: no instance waits forever: without shutdown(), pause() and
\* terminate(), every created instance eventually reaches the status
\* complete or errored, since every sleep, backoff pause and event wait is
\* ended by a timer at the latest.
C38_NoInstanceWaitsForever ==
  \A id \in InstanceIds : (id \in DOMAIN storage) ~> Ended(id)

\* a run that went through a backoff pause, or through an event wait that
\* its timer ended, has reached a final status
C38_Witness ==
  /\ Ended("a")
  /\ \E r \in Runners :
       /\ runners[r].id = "a" /\ runners[r].pc = "done" /\ ~runners[r].sd
       /\ \/ wf = "SingleEvent" /\ storage["a"].error = Some("Timeout")
          \/ wf = "Retry" /\ \E k \in DOMAIN bodyRuns : bodyRuns[k] > 1
          \/ wf = "Pausable" /\ storage["a"].status = "complete"


\* --------------------------------------------------- crash and recovery
\* Manager 1 runs the single-event workflow and is sent events until it
\* stops; manager 2 then recovers the instance from the same storage.
InitCrash == Init /\ wf = "SingleEvent"

NextCrash ==
  \/ \E r \in Runners : Enter(r)
  \/ \E r \in Runners : RunThrows(r)
  \/ \E r \in Runners : RunFinally(r)
  \/ \E r \in Runners : WaitLoaded(r)
  \/ \E r \in Runners : WaitWriteWaiting(r)
  \/ \E r \in Runners : WaitCheck(r)
  \/ \E r \in Runners : WaitRegister(r)
  \/ \E r \in Runners : WaitTimeout(r)
  \/ \E r \in Runners : WaitWriteFailed(r)
  \/ \E r \in Runners : DoCheckSettle(r)
  \/ \E id \in {"a"} \ DOMAIN storage, v \in ParamValues : CreateInstance(1, id, v)
  \/ \E id \in {"a"} \cap DOMAIN storage, p \in Payloads :
       ~calls[1].shut /\ SendEvent(1, id, EventType, p)
  \/ ~calls[1].shut /\ Shutdown(1)
  \/ calls[1].shut /\ Recover(2)
  \/ CallSpawn
  \/ RecLoad
  \/ RecWait
  \/ Tick

SpecCrash == InitCrash /\ [][NextCrash]_vars

WaitOver(id) ==
  \E r \in Runners :
    /\ runners[r].id = id
    /\ runners[r].sd \/ runners[r].err = "Timeout"

\* C40: no stale listeners: a listener is registered for (instance, type)
\* only while a waitForEvent of that instance and type is suspended in a
\* run that was not abandoned, and a sendEvent that arrives after the wait
\* timed out or after its run was abandoned is kept as the pending event
\* of (instance, type) for the next waitForEvent.
C40_NoStaleListeners ==
  /\ [](\A r \in Runners : \A type \in runners[r].lst :
          runners[r].pc = "we_race" /\ ~runners[r].sd)
  /\ [](\A m \in Mgrs : \A l \in eventListeners[m] : HasWaiter(l[1], l[2]))
  /\ [][\A id \in InstanceIds, p \in Payloads :
          (SendEvent(1, id, EventType, p) /\ WaitOver(id) /\ ~HasWaiter(id, EventType)) =>
             Key(id, EventType) \in DOMAIN pendingEvents']_vars

====
